---- MODULE Spec2Model ----
(***************************************************************************)
(* A model of angr's control-flow structuring engine                       *)
(* (angr/analyses/decompiler/structurer.py): the recursive driver, the     *)
(* reaching-condition solver, the acyclic and cyclic pipelines and the     *)
(* switch/case recognizer.                                                 *)
(*                                                                         *)
(* Values.  Every node of a region graph or of the AST is a record with a  *)
(* "type" field; Python's None is NoneV.  A condition is a record          *)
(* [sort, op, name, args]: sort "claripy" for a boolean formula, sort      *)
(* "ail" for an IL expression.  Addresses are integers; an IL block at     *)
(* address a holds statements whose ins_addr are a+1, a+2.                 *)
(***************************************************************************)
EXTENDS Integers, Sequences, FiniteSets, TLC

VARIABLES
    pc,          \* position of Structurer._analyze
    region,      \* self._region: head, graph, graph_with_successors, node contents
    parents,     \* parent_map: whether one was given, and the successors of the
                 \* region in its ancestors' graphs
    rcs,         \* self._reaching_conditions
    cmap,        \* self._condition_mapping (the registered claripy leaves)
    tree,        \* the sequence being rewritten (seq)
    worklist,    \* self._new_sequences (identities of the queued sequences)
    nextSid,     \* identity given to the next queued SequenceNode
    loopst,      \* loop_subgraph / successors / loop node of _analyze_cyclic
    result,      \* Structurer.result
    inner,       \* result of the Structurer that was run last from this one
    stack,       \* the Structurers waiting for the one that runs
    err,         \* the exception that ended the analysis, "" if none
    driver,      \* RecursiveStructurer._analyze: its position, its copy of the
                 \* region tree, its stack, parent_map and result
    locals,      \* the local variables of a method that is run step by step
    tick         \* flips on every step the interpreter executes

vars == <<pc, region, parents, rcs, cmap, tree, worklist, nextSid, loopst, result, inner,
          stack, err, driver, locals, tick>>

NoneV == [type |-> "None"]

----------------------------------------------------------------------------
\* Sequence helpers

RECURSIVE SeqToSet(_)
SeqToSet(s) == IF s = <<>> THEN {} ELSE {Head(s)} \cup SeqToSet(Tail(s))

InSeq(x, s) == \E i \in 1..Len(s) : s[i] = x

RECURSIVE RemoveAll(_, _)
RemoveAll(s, x) ==
    IF s = <<>> THEN <<>>
    ELSE IF Head(s) = x THEN RemoveAll(Tail(s), x)
    ELSE <<Head(s)>> \o RemoveAll(Tail(s), x)

RECURSIVE Dedup(_)
Dedup(s) ==
    IF s = <<>> THEN <<>>
    ELSE <<Head(s)>> \o Dedup(RemoveAll(Tail(s), Head(s)))

RECURSIVE Flatten(_)
Flatten(ss) == IF ss = <<>> THEN <<>> ELSE Head(ss) \o Flatten(Tail(ss))

Last(s) == s[Len(s)]
Front(s) == SubSeq(s, 1, Len(s) - 1)

\* s with x inserted so that it lands at (1-based) position i, as list.insert
InsertAt(s, i, x) ==
    LET j == IF i > Len(s) + 1 THEN Len(s) + 1 ELSE i
    IN  SubSeq(s, 1, j - 1) \o <<x>> \o SubSeq(s, j, Len(s))

RECURSIVE SeqOfSet(_)
\* the elements of a finite set of integers in increasing order
SeqOfSet(S) ==
    IF S = {} THEN <<>>
    ELSE LET m == CHOOSE x \in S : \A y \in S : x <= y
         IN  <<m>> \o SeqOfSet(S \ {m})

----------------------------------------------------------------------------
\* claripy: the boolean formula algebra

ClTrue  == [sort |-> "claripy", op |-> "true",  name |-> 0, args |-> <<>>]
ClFalse == [sort |-> "claripy", op |-> "false", name |-> 0, args |-> <<>>]
\* the leaf that stands for the IL expression e (a one-bit variable, or a
\* comparison, which the formula algebra does not look into)
ClVar(e) == [sort |-> "claripy", op |-> "var", name |-> 0, args |-> <<e>>]
ClNode(o, as) == [sort |-> "claripy", op |-> o, name |-> 0, args |-> as]

IsClaripy(c) == c # NoneV /\ c.sort = "claripy"
IsAil(c) == c # NoneV /\ c.sort = "ail"

\* claripy.Not with its construction-time simplifier (constants, double negation)
ClNot(a) ==
    IF a.op = "true" THEN ClFalse
    ELSE IF a.op = "false" THEN ClTrue
    ELSE IF a.op = "Not" THEN a.args[1]
    ELSE ClNode("Not", <<a>>)

RECURSIVE FlattenOp(_, _)
FlattenOp(o, as) ==
    IF as = <<>> THEN <<>>
    ELSE (IF Head(as).op = o THEN Head(as).args ELSE <<Head(as)>>) \o FlattenOp(o, Tail(as))

\* claripy.And / claripy.Or with the construction-time simplifier: one argument
\* is returned as it is, the absorbing constant wins, the neutral constant is
\* dropped, nested same-operator arguments are flattened and deduplicated.
ClNary(o, as) ==
    LET absorbing == IF o = "And" THEN "false" ELSE "true"
        neutral   == IF o = "And" THEN "true" ELSE "false"
        kept      == SelectSeq(as, LAMBDA a : a.op # neutral)
        flat      == Dedup(FlattenOp(o, kept))
    IN  IF Len(as) = 1 THEN as[1]
        ELSE IF \E i \in 1..Len(as) : as[i].op = absorbing
             THEN (IF o = "And" THEN ClFalse ELSE ClTrue)
        ELSE IF kept = <<>> THEN (IF o = "And" THEN ClTrue ELSE ClFalse)
        ELSE IF Len(kept) = 1 THEN kept[1]
        ELSE IF \E i \in 1..Len(kept) : kept[i].op = o
             THEN (IF Len(flat) = 1 THEN flat[1] ELSE ClNode(o, flat))
        ELSE ClNode(o, kept)

ClAnd(as) == ClNary("And", as)
ClOr(as)  == ClNary("Or", as)

RECURSIVE FVars(_)
FVars(c) ==
    IF c.op = "var" THEN {c.args[1]}
    ELSE UNION {FVars(c.args[i]) : i \in 1..Len(c.args)}

RECURSIVE Eval(_, _)
\* the truth value of a formula under the assignment that makes exactly env true
Eval(c, env) ==
    CASE c.op = "true"  -> TRUE
      [] c.op = "false" -> FALSE
      [] c.op = "var"   -> c.args[1] \in env
      [] c.op = "Not"   -> ~Eval(c.args[1], env)
      [] c.op = "And"   -> \A i \in 1..Len(c.args) : Eval(c.args[i], env)
      [] c.op = "Or"    -> \E i \in 1..Len(c.args) : Eval(c.args[i], env)

Valid(c) == \A env \in SUBSET FVars(c) : Eval(c, env)
Unsat(c) == \A env \in SUBSET FVars(c) : ~Eval(c, env)
Equiv(a, b) == \A env \in SUBSET (FVars(a) \cup FVars(b)) : Eval(a, env) = Eval(b, env)

\* claripy.is_true / claripy.is_false of a value that was not simplified: only
\* the concrete constants are recognised; anything that is not a claripy
\* formula (an IL expression) is not recognised either.
ClIsTrue(c)  == c # NoneV /\ c.sort = "claripy" /\ c.op = "true"
ClIsFalse(c) == c # NoneV /\ c.sort = "claripy" /\ c.op = "false"

----------------------------------------------------------------------------
\* ailment: IL expressions, statements and blocks

AilVar(i)    == [sort |-> "ail", op |-> "Var", name |-> i, args |-> <<>>]
AilConst(v)  == [sort |-> "ail", op |-> "Const", name |-> v, args |-> <<>>]
AilNot(a)    == [sort |-> "ail", op |-> "Not", name |-> 0, args |-> <<a>>]
AilBin(o, a, b) == [sort |-> "ail", op |-> o, name |-> 0, args |-> <<a, b>>]

\* A statement.  k is "Assign", "Jump" or "CJ" (ConditionalJump); a Jump whose
\* target is not a constant (an indirect jump) has t = 0 and its target
\* expression in cond.
Assign(i)       == [type |-> "Stmt", k |-> "Assign", ins |-> i, cond |-> NoneV, t |-> 0, f |-> 0]
Jump(i, t)      == [type |-> "Stmt", k |-> "Jump", ins |-> i, cond |-> NoneV, t |-> t, f |-> 0]
IndirectJump(i, e) == [type |-> "Stmt", k |-> "Jump", ins |-> i, cond |-> e, t |-> 0, f |-> 0]
CJ(i, c, t, f)  == [type |-> "Stmt", k |-> "CJ", ins |-> i, cond |-> c, t |-> t, f |-> f]

Block(a, stmts) == [type |-> "Block", addr |-> a, statements |-> stmts]

\* The AST variants of structurer_nodes
CodeNode(n, rc) == [type |-> "Code", node |-> n, rc |-> rc]
\* SequenceNode(nodes): a sequence directly inside the new sequence is spliced
\* into it (sequences are flattened on construction)
SequenceNode(ns) ==
    [type |-> "Seq", sid |-> 0,
     nodes |-> Flatten([i \in 1..Len(ns) |->
                          IF ns[i].type = "Seq" THEN ns[i].nodes ELSE <<ns[i]>>])]
ConditionNode(a, rc, c, tn, fn) ==
    [type |-> "Cond", addr |-> a, rc |-> rc, cond |-> c, true |-> tn, false |-> fn]
LoopNode(sort, c, body, a) ==
    [type |-> "Loop", sort |-> sort, cond |-> c, body |-> body, addr |-> a]
BreakNode(a, t) == [type |-> "Break", addr |-> a, target |-> t]
ConditionalBreakNode(a, c, t) == [type |-> "CBreak", addr |-> a, cond |-> c, target |-> t]
SwitchCaseNode(e, cs, d, a) ==
    [type |-> "Switch", expr |-> e, cases |-> cs, default |-> d, addr |-> a]

\* An exception, as a value returned in place of the result
Exc(kind) == [type |-> "Exc", kind |-> kind]
IsExc(x) == "type" \in DOMAIN x /\ x.type = "Exc"

RECURSIVE Addr(_)
\* node.addr: a Code has the address of its inner node, a Sequence that of its
\* first node
Addr(n) ==
    CASE n.type = "Code" -> Addr(n.node)
      [] n.type = "Seq"  -> IF n.nodes = <<>> THEN 0 ELSE Addr(n.nodes[1])
      [] n.type = "None" -> 0
      [] n.type = "Switch" -> n.addr
      [] OTHER -> n.addr

RECURSIVE test_empty_node(_)
test_empty_node(n) ==
    CASE n.type = "Block" -> n.statements = <<>>
      [] n.type = "Code"  -> test_empty_node(n.node)
      [] n.type = "Seq"   -> \A i \in 1..Len(n.nodes) : test_empty_node(n.nodes[i])
      [] OTHER -> FALSE

RECURSIVE get_last_statement(_)
get_last_statement(b) ==
    CASE b.type = "Seq" ->
            IF b.nodes # <<>> THEN get_last_statement(Last(b.nodes))
            ELSE Exc("NotImplementedError")
      [] b.type = "Code" -> get_last_statement(b.node)
      [] b.type = "Block" ->
            IF b.statements = <<>> THEN Exc("EmptyBlockNotice") ELSE Last(b.statements)
      [] b.type = "Loop" -> get_last_statement(b.body)
      [] b.type \in {"CBreak", "Cond", "Break", "Switch", "Region"} -> NoneV
      [] OTHER -> Exc("NotImplementedError")

\* the node with its last statement left in place
KeepLastStatement(n) == n

RECURSIVE remove_last_statement(_)
\* the node without its last statement, or the exception raised
remove_last_statement(n) ==
    CASE n.type = "Code" ->
            LET r == remove_last_statement(n.node)
            IN  IF IsExc(r) THEN r ELSE [n EXCEPT !.node = r]
      [] n.type = "Block" ->
            IF n.statements = <<>> THEN Exc("IndexError")
            ELSE [n EXCEPT !.statements = Front(n.statements)]
      [] n.type = "Seq" ->
            IF n.nodes = <<>> THEN n
            ELSE LET r == remove_last_statement(Last(n.nodes))
                 IN  IF IsExc(r) THEN r
                     ELSE IF test_empty_node(r) THEN [n EXCEPT !.nodes = Front(n.nodes)]
                     ELSE [n EXCEPT !.nodes = Front(n.nodes) \o <<r>>]
      [] OTHER -> Exc("NotImplementedError")

RECURSIVE append_statement(_, _)
append_statement(n, stmt) ==
    CASE n.type = "Code" ->
            LET r == append_statement(n.node, stmt)
            IN  IF IsExc(r) THEN r ELSE [n EXCEPT !.node = r]
      [] n.type = "Block" -> [n EXCEPT !.statements = Append(n.statements, stmt)]
      [] n.type = "Seq" ->
            IF n.nodes = <<>> THEN Exc("NotImplementedError")
            ELSE LET r == append_statement(Last(n.nodes), stmt)
                 IN  IF IsExc(r) THEN r ELSE [n EXCEPT !.nodes = Front(n.nodes) \o <<r>>]
      [] OTHER -> Exc("NotImplementedError")

\* the constant targets of a Jump or ConditionalJump, in the order true, false
extract_jump_targets(stmt) ==
    IF stmt.type # "Stmt" THEN <<>>
    ELSE IF stmt.k = "Jump" THEN (IF stmt.t # 0 THEN <<stmt.t>> ELSE <<>>)
    ELSE IF stmt.k = "CJ" THEN <<stmt.t, stmt.f>>
    ELSE <<>>

RECURSIVE claripy_ast_from_ail_condition(_)
claripy_ast_from_ail_condition(c) ==
    CASE c.op = "Not" -> ClNot(claripy_ast_from_ail_condition(c.args[1]))
      [] c.op = "LogicalAnd" -> ClAnd(<<claripy_ast_from_ail_condition(c.args[1]),
                                        claripy_ast_from_ail_condition(c.args[2])>>)
      [] c.op = "LogicalOr" -> ClOr(<<claripy_ast_from_ail_condition(c.args[1]),
                                      claripy_ast_from_ail_condition(c.args[2])>>)
      [] OTHER -> ClVar(c)

RECURSIVE AilLeaves(_)
\* the leaves _claripy_ast_from_ail_condition enters into _condition_mapping
AilLeaves(c) ==
    IF c.op \in {"Not", "LogicalAnd", "LogicalOr"}
    THEN UNION {AilLeaves(c.args[i]) : i \in 1..Len(c.args)}
    ELSE {c}

RECURSIVE binary_op_reduce(_, _)
binary_op_reduce(o, as) ==
    IF Len(as) = 1 THEN as[1]
    ELSE AilBin(o, binary_op_reduce(o, Front(as)), Last(as))

\* a conversion that leaves the formula as it is
keep_claripy_bool_ast(c) == c

RECURSIVE convert_claripy_bool_ast(_)
\* the IL expression of a formula whose leaves are all in _condition_mapping
convert_claripy_bool_ast(c) ==
    IF c.sort = "ail" THEN c
    ELSE CASE c.op = "var" -> c.args[1]
           [] c.op = "Not" -> AilNot(convert_claripy_bool_ast(c.args[1]))
           [] c.op = "And" ->
                binary_op_reduce("LogicalAnd",
                    [i \in 1..Len(c.args) |-> convert_claripy_bool_ast(c.args[i])])
           [] c.op = "Or" ->
                binary_op_reduce("LogicalOr",
                    [i \in 1..Len(c.args) |-> convert_claripy_bool_ast(c.args[i])])
           [] c.op = "true" -> AilConst(1)
           [] c.op = "false" -> AilConst(0)

\* whether _convert_claripy_bool_ast returns (it raises NotImplementedError on a
\* leaf that is not in the mapping)
Convertible(c, mapping) == c = NoneV \/ c.sort = "ail" \/ FVars(c) \subseteq mapping

negate_cond(c) ==
    IF c.sort = "ail" /\ c.op = "Not" THEN c.args[1] ELSE AilNot(c)

revert_short_circuit_conditions(c) ==
    IF c.op # "Or" THEN c
    ELSE LET a0 == c.args[1]
             a1 == c.args[2]
             swap == a1.op # "And" /\ a0.op = "And"
             not_a == IF swap THEN a1 ELSE a0
             conj  == IF swap THEN a0 ELSE a1
         IN  IF conj.op # "And" THEN c
             ELSE LET pick == IF FVars(not_a) = FVars(conj.args[1]) THEN 1
                              ELSE IF FVars(not_a) = FVars(conj.args[2]) THEN 2 ELSE 0
                  IN  IF pick = 0 THEN c
                      ELSE LET same  == conj.args[pick]
                               not_b == conj.args[3 - pick]
                               neg   == ClNot(ClAnd(<<ClNot(not_a), ClNot(not_b)>>))
                           IN  IF Equiv(not_a, ClNot(same))
                               THEN (IF Len(c.args) <= 2 THEN neg
                                     ELSE ClOr(<<neg>> \o SubSeq(c.args, 3, Len(c.args))))
                               ELSE c

simplify_condition(c) ==
    IF Valid(c) THEN ClTrue
    ELSE IF Unsat(c) THEN ClFalse
    ELSE revert_short_circuit_conditions(c)

RECURSIVE get_ast_subexprs(_)
\* the conjuncts of a formula, in the order the generator yields them
get_ast_subexprs(c) ==
    IF c.op = "And"
    THEN <<c.args[1]>> \o Flatten([i \in 1..(Len(c.args) - 1) |-> get_ast_subexprs(c.args[i + 1])])
    ELSE IF c.op = "Or"
    THEN LET subs == [i \in 1..Len(c.args) |-> get_ast_subexprs(c.args[i])]
         IN  SelectSeq(Dedup(subs[1]), LAMBDA e : \A i \in 2..Len(subs) : InSeq(e, subs[i]))
    ELSE <<c>>

----------------------------------------------------------------------------
\* networkx: a directed graph is [ns |-> nodes, es |-> edges], both in
\* insertion order; a node is named by its address.

EmptyGraph == [ns |-> <<>>, es |-> <<>>]
HasNode(g, n) == InSeq(n, g.ns)
HasEdge(g, u, v) == InSeq(<<u, v>>, g.es)
AddNode(g, n) == IF HasNode(g, n) THEN g ELSE [g EXCEPT !.ns = Append(g.ns, n)]
AddEdge(g, u, v) ==
    LET g2 == AddNode(AddNode(g, u), v)
    IN  IF HasEdge(g2, u, v) THEN g2 ELSE [g2 EXCEPT !.es = Append(g2.es, <<u, v>>)]
RemoveEdge(g, u, v) == [g EXCEPT !.es = RemoveAll(g.es, <<u, v>>)]
RemoveNode(g, n) ==
    [ns |-> RemoveAll(g.ns, n), es |-> SelectSeq(g.es, LAMBDA e : e[1] # n /\ e[2] # n)]
Successors(g, u) ==
    LET out == SelectSeq(g.es, LAMBDA e : e[1] = u)
    IN  [i \in 1..Len(out) |-> out[i][2]]
Predecessors(g, v) ==
    LET inc == SelectSeq(g.es, LAMBDA e : e[2] = v)
    IN  [i \in 1..Len(inc) |-> inc[i][1]]
Subgraph(g, S) ==
    [ns |-> SelectSeq(g.ns, LAMBDA n : n \in S),
     es |-> SelectSeq(g.es, LAMBDA e : e[1] \in S /\ e[2] \in S)]

RECURSIVE ReachFrom(_, _, _)
\* the nodes reachable from the set S without entering a node of Avoid
ReachFrom(g, S, Avoid) ==
    LET nxt == {e[2] : e \in {x \in SeqToSet(g.es) : x[1] \in S}} \ Avoid
    IN  IF nxt \subseteq S THEN S ELSE ReachFrom(g, S \cup nxt, Avoid)

Reaches(g, u, v) == v \in ReachFrom(g, {u}, {})

\* networkx.strongly_connected_components: the component that holds n
Component(g, n) == {m \in SeqToSet(g.ns) : Reaches(g, n, m) /\ Reaches(g, m, n)}

RECURSIVE Kahn(_, _, _)
\* networkx.topological_sort: the zero in-degree nodes are kept on a stack
Kahn(g, zero_indegree, indeg) ==
    IF zero_indegree = <<>> THEN <<>>
    ELSE LET node == Last(zero_indegree)
             kids == Successors(g, node)
             cnt(v) == Cardinality({i \in 1..Len(kids) : kids[i] = v})
             indeg2 == [v \in DOMAIN indeg |-> indeg[v] - cnt(v)]
             freed == SelectSeq(kids, LAMBDA v : indeg[v] > 0 /\ indeg2[v] = 0)
         IN  <<node>> \o Kahn(g, Front(zero_indegree) \o freed, indeg2)

topological_sort(g) ==
    LET indeg == [v \in SeqToSet(g.ns) |-> Len(Predecessors(g, v))]
    IN  Kahn(g, SelectSeq(g.ns, LAMBDA v : indeg[v] = 0), indeg)

is_directed_acyclic_graph(g) == Len(topological_sort(g)) = Len(g.ns)

RECURSIVE Bfs(_, _, _)
\* networkx.bfs_successors: <<node, the nodes first discovered from it>>
Bfs(g, queue, seen) ==
    IF queue = <<>> THEN <<>>
    ELSE LET node == Head(queue)
             kids == Dedup(SelectSeq(Successors(g, node), LAMBDA v : v \notin seen))
         IN  (IF kids = <<>> THEN <<>> ELSE << <<node, kids>> >>)
             \o Bfs(g, Tail(queue) \o kids, seen \cup SeqToSet(kids))

bfs_successors(g, src) == Bfs(g, <<src>>, {src})

\* dominates(idoms, a, b) on the immediate dominators of the reversed graph,
\* rooted at the end node (a dummy end node when there are several): a is on
\* every path from b to an end of the graph, and b reaches an end.
EndNodes(g) == {n \in SeqToSet(g.ns) : Successors(g, n) = <<>>}

strictly_postdominates(g, a, b) ==
    /\ EndNodes(g) # {}
    /\ ReachFrom(g, {b}, {}) \cap EndNodes(g) # {}
    /\ \/ a = b
       \/ ReachFrom(g, {b}, {a}) \cap (EndNodes(g) \ {a}) = {}

RECURSIVE quasi_topological_sort_nodes(_)
\* CFGUtils.quasi_topological_sort_nodes: a topological order of the graph with
\* the edges that close a cycle (those entering the first node of a component)
\* removed
quasi_topological_sort_nodes(g) ==
    IF is_directed_acyclic_graph(g) THEN topological_sort(g)
    ELSE LET cyc == SelectSeq(g.ns, LAMBDA n : Cardinality(Component(g, n)) > 1 \/ HasEdge(g, n, n))
             h == cyc[1]
             cut == [g EXCEPT !.es = SelectSeq(g.es, LAMBDA e :
                                        ~(e[2] = h /\ e[1] \in Component(g, h)))]
         IN  quasi_topological_sort_nodes(cut)

----------------------------------------------------------------------------
\* Reaching conditions (Structurer._recover_reaching_conditions)

\* _extract_predicate(src_block, dst_block): the predicate of the edge, or the
\* exception _get_last_statement raises
extract_predicate(src, dstAddr) ==
    IF src.type = "CBreak"
    THEN (IF src.target = dstAddr THEN src.cond ELSE ClNot(src.cond))
    ELSE IF src.type = "Region" THEN ClTrue
    ELSE LET last == get_last_statement(src)
         IN  IF IsExc(last) THEN last
             ELSE IF last = NoneV THEN ClTrue
             ELSE IF last.k = "Jump"
                  THEN (IF last.t # 0 THEN ClTrue
                        ELSE ClVar(AilBin("CmpEQ", last.cond, AilConst(dstAddr))))
             ELSE IF last.k = "CJ"
                  THEN (IF last.t = dstAddr THEN claripy_ast_from_ail_condition(last.cond)
                        ELSE ClNot(claripy_ast_from_ail_condition(last.cond)))
             ELSE ClTrue

\* the predicates of all edges of the graph: edge_conditions
EdgeConditions(g, content) ==
    [e \in SeqToSet(g.es) |-> extract_predicate(content[e[1]], e[2])]

RECURSIVE ReachingOfPreds(_, _, _, _, _)
\* the fold over the predecessors of node: And(pred, edge) for the first one,
\* Or(And(pred, edge), so far) for each further one; NoneV without predecessors
ReachingOfPreds(preds, node, ec, done, acc) ==
    IF preds = <<>> THEN acc
    ELSE LET p == Head(preds)
             pc_ == IF p \in DOMAIN done THEN done[p] ELSE ClTrue
             term == ClAnd(<<pc_, ec[<<p, node>>]>>)
             acc2 == IF acc = NoneV THEN term ELSE ClOr(<<term, acc>>)
         IN  ReachingOfPreds(Tail(preds), node, ec, done, acc2)

\* the reaching condition of one node, given those computed before it
reaching_condition_of(g, head, ec, done, node) ==
    LET Simplified(r) == IF r = NoneV THEN NoneV ELSE simplify_condition(r)
    IN  IF node = head THEN simplify_condition(ClTrue)
        ELSE IF strictly_postdominates(g, node, head) THEN ClTrue
        ELSE Simplified(ReachingOfPreds(Predecessors(g, node), node, ec, done, NoneV))

RECURSIVE ReachingFold(_, _, _, _, _)
ReachingFold(order, g, head, ec, done) ==
    LET n == Head(order)
        Put(r) ==
            ReachingFold(Tail(order), g, head, ec,
                         IF r = NoneV THEN done
                         ELSE [x \in DOMAIN done \cup {n} |-> IF x = n THEN r ELSE done[x]])
    IN  IF order = <<>> THEN done
        ELSE Put(reaching_condition_of(g, head, ec, done, n))

\* the exception _recover_reaching_conditions ends with, "" if none
recover_exception(g, content) ==
    LET Raised(ec) ==
            IF \E e \in DOMAIN ec : IsExc(ec[e])
            THEN (CHOOSE k \in {ec[e].kind : e \in {x \in DOMAIN ec : IsExc(ec[x])}} : TRUE)
            ELSE ""
    IN  Raised(EdgeConditions(g, content))

\* self._reaching_conditions after _recover_reaching_conditions
recover_reaching_conditions(g, head, content) ==
    ReachingFold(quasi_topological_sort_nodes(g), g, head, EdgeConditions(g, content),
                 [x \in {} |-> ClTrue])

\* the leaves entered into _condition_mapping while the predicates are extracted
recover_leaves(g, content) ==
    LET Leaves(ec) == UNION {FVars(ec[e]) : e \in {x \in DOMAIN ec : ~IsExc(ec[x])}}
    IN  Leaves(EdgeConditions(g, content))

\* _make_sequence: the nodes in topological order, each in a Code node with its
\* reaching condition (None when it has none)
make_sequence(g, content, conds) ==
    LET order == topological_sort(g)
    IN  [type |-> "Seq", sid |-> 1,
         nodes |-> [i \in 1..Len(order) |->
                       CodeNode(content[order[i]],
                                IF order[i] \in DOMAIN conds THEN conds[order[i]] ELSE NoneV)]]

----------------------------------------------------------------------------
\* Rewrites of the acyclic pipeline

RECURSIVE remove_conditional_jumps_in(_, _, _)
\* the walk of _remove_conditional_jumps below node n: every IL block loses its
\* ConditionalJump statements; a sequence other than the one the walk started
\* at (top) is entered only when follow_seq is set
remove_conditional_jumps_in(n, follow_seq, top) ==
    CASE n.type = "Block" ->
            [n EXCEPT !.statements = SelectSeq(n.statements, LAMBDA st : st.k # "CJ")]
      [] n.type = "Code" ->
            [n EXCEPT !.node = remove_conditional_jumps_in(n.node, follow_seq, FALSE)]
      [] n.type = "Seq" ->
            IF ~follow_seq /\ ~top THEN n
            ELSE [n EXCEPT !.nodes = [i \in 1..Len(n.nodes) |->
                                        remove_conditional_jumps_in(n.nodes[i], follow_seq, FALSE)]]
      [] n.type = "Cond" ->
            [n EXCEPT !.true = remove_conditional_jumps_in(n.true, follow_seq, FALSE),
                      !.false = remove_conditional_jumps_in(n.false, follow_seq, FALSE)]
      [] n.type = "Loop" ->
            [n EXCEPT !.body = remove_conditional_jumps_in(n.body, follow_seq, FALSE)]
      [] n.type = "Switch" ->
            [n EXCEPT !.cases = [k \in DOMAIN n.cases |->
                                    remove_conditional_jumps_in(n.cases[k], follow_seq, FALSE)],
                      !.default = remove_conditional_jumps_in(n.default, follow_seq, FALSE)]
      [] OTHER -> n

remove_conditional_jumps(seq, follow_seq) == remove_conditional_jumps_in(seq, follow_seq, TRUE)

RECURSIVE EmptyNodeRemoverWalk(_)
\* EmptyNodeRemover: the node without the nodes that became empty, NoneV when
\* nothing of it is left
EmptyNodeRemoverWalk(n) ==
    CASE n.type = "Block" -> IF n.statements = <<>> THEN NoneV ELSE n
      [] n.type = "Code" ->
            LET in == EmptyNodeRemoverWalk(n.node)
            IN  IF in = NoneV THEN NoneV ELSE [n EXCEPT !.node = in]
      [] n.type = "Seq" ->
            LET kept == SelectSeq([i \in 1..Len(n.nodes) |-> EmptyNodeRemoverWalk(n.nodes[i])],
                                  LAMBDA x : x # NoneV)
            IN  IF kept = <<>> THEN NoneV ELSE [n EXCEPT !.nodes = kept]
      [] n.type = "Cond" ->
            LET t == EmptyNodeRemoverWalk(n.true)
                f == EmptyNodeRemoverWalk(n.false)
            IN  IF t = NoneV /\ f = NoneV THEN NoneV ELSE [n EXCEPT !.true = t, !.false = f]
      [] n.type = "Loop" ->
            LET b == EmptyNodeRemoverWalk(n.body)
            IN  [n EXCEPT !.body = IF b = NoneV THEN [n.body EXCEPT !.nodes = <<>>] ELSE b]
      [] n.type = "Switch" ->
            LET cs == [k \in DOMAIN n.cases |-> EmptyNodeRemoverWalk(n.cases[k])]
                live == {k \in DOMAIN cs : cs[k] # NoneV}
            IN  [n EXCEPT !.cases = [k \in live |-> cs[k]],
                          !.default = EmptyNodeRemoverWalk(n.default)]
      [] OTHER -> n

\* EmptyNodeRemover(seq).result: a sequence, empty when nothing is left
EmptyNodeRemover(seq) ==
    LET r == EmptyNodeRemoverWalk(seq)
    IN  IF r = NoneV THEN [seq EXCEPT !.nodes = <<>>] ELSE r

\* node.reaching_condition of a node of a sequence
ReachingCondition(n) == IF n.type \in {"Code", "Cond"} THEN n.rc ELSE NoneV

\* a merge that keeps only the first of the two nodes
KeepFirstNode(n0, n1) == SequenceNode(<<n0>>)

merge_nodes(n0, n1) ==
    IF n0.type = "Seq"
    THEN (IF n1.type = "Seq" THEN SequenceNode(n0.nodes \o n1.nodes)
          ELSE SequenceNode(n0.nodes \o <<n1>>))
    ELSE (IF n1.type = "Seq" THEN SequenceNode(<<n0>> \o n1.nodes)
          ELSE SequenceNode(<<n0, n1>>))

RECURSIVE merge_same_conditioned_from(_, _)
\* the loop of _merge_same_conditioned_nodes from index i on
merge_same_conditioned_from(nodes, i) ==
    IF i >= Len(nodes) THEN nodes
    ELSE LET n0 == nodes[i]
             n1 == nodes[i + 1]
         IN  IF n0.type # "Code" \/ n0.rc = NoneV \/ ReachingCondition(n1) = NoneV
             THEN merge_same_conditioned_from(nodes, i + 1)
             ELSE IF Equiv(n0.rc, ReachingCondition(n1))
             THEN merge_same_conditioned_from(
                      SubSeq(nodes, 1, i - 1)
                          \o <<CodeNode(merge_nodes(n0.node, n1.node), n0.rc)>>
                          \o SubSeq(nodes, i + 2, Len(nodes)), i)
             ELSE merge_same_conditioned_from(nodes, i + 1)

merge_same_conditioned_nodes(nodes) == merge_same_conditioned_from(nodes, 1)

\* _nodes_guarded_by_common_subexpr: <<index, node, conjuncts>> of every node
\* from (1-based) index start on whose reaching condition has common_subexpr
\* among its conjuncts
nodes_guarded_by_common_subexpr(nodes, common_subexpr, start) ==
    IF common_subexpr = ClTrue THEN <<>>
    ELSE LET idx == SelectSeq([k \in 1..(Len(nodes) - start + 1) |-> start + k - 1],
                       LAMBDA j : /\ ReachingCondition(nodes[j]) # NoneV
                                  /\ InSeq(common_subexpr,
                                           get_ast_subexprs(ReachingCondition(nodes[j]))))
         IN  [k \in 1..Len(idx) |->
                 <<idx[k], nodes[idx[k]], get_ast_subexprs(ReachingCondition(nodes[idx[k]]))>>]

\* _create_seq_node_guarded_by_common_subexpr; sid names the new sequence
create_seq_node_guarded_by_common_subexpr(common_subexpr, candidates, sid) ==
    LET new_nodes == [k \in 1..Len(candidates) |->
                         CodeNode(candidates[k][2].node,
                                  ClAnd(SelectSeq(candidates[k][3],
                                                  LAMBDA ex : ex # common_subexpr)))]
    IN  CodeNode([SequenceNode(new_nodes) EXCEPT !.sid = sid], common_subexpr)

\* seq.nodes with the nodes at the indices of the candidates erased and
\* new_node put at (1-based) index at
EraseAndPut(nodes, candidates, at, new_node) ==
    LET gone == {candidates[k][1] : k \in 1..Len(candidates)}
        marked == [j \in 1..Len(nodes) |->
                      IF j = at THEN new_node ELSE IF j \in gone THEN NoneV ELSE nodes[j]]
    IN  SelectSeq(marked, LAMBDA x : x # NoneV)

\* one pass of the while loop of _structure_common_subexpression_conditions at
\* index st.i; st is [nodes, i, new, next]: new lists the sequences queued,
\* next is the identity of the next new sequence
common_subexpression_pass(st) ==
    LET n0 == st.nodes[st.i]
        rc0 == ReachingCondition(n0)
        subexprs_0 == IF rc0 = NoneV THEN <<>> ELSE get_ast_subexprs(rc0)
        usable == SelectSeq(subexprs_0, LAMBDA c :
                     /\ ~ClIsTrue(c)
                     /\ nodes_guarded_by_common_subexpr(st.nodes, c, st.i + 1) # <<>>)
    IN  IF usable = <<>> THEN [st EXCEPT !.i = st.i + 1]
        ELSE LET c == usable[1]
                 cands == << <<st.i, n0, subexprs_0>> >>
                            \o nodes_guarded_by_common_subexpr(st.nodes, c, st.i + 1)
                 new_node == create_seq_node_guarded_by_common_subexpr(c, cands, st.next)
             IN  [nodes |-> EraseAndPut(st.nodes, cands, st.i, new_node),
                  i |-> st.i, new |-> Append(st.new, st.next),
                  next |-> st.next + 1]

RECURSIVE common_subexpression_from(_)
\* the loop of _structure_common_subexpression_conditions from index st.i on
common_subexpression_from(st) ==
    IF st.i >= Len(st.nodes) THEN st
    ELSE common_subexpression_from(common_subexpression_pass(st))

structure_common_subexpression_conditions(nodes, next) ==
    common_subexpression_from([nodes |-> nodes, i |-> 1, new |-> <<>>, next |-> next])

\* _make_ite with the ConditionNode put where the earlier of the two nodes was
PairAtEarlier(st, i, j) ==
    LET kids_0 == << <<i, [st.nodes[i] EXCEPT !.rc = NoneV], <<st.nodes[i].rc>> >> >>
        kids_1 == << <<j, [st.nodes[j] EXCEPT !.rc = NoneV], <<st.nodes[j].rc>> >> >>
        new_node ==
            ConditionNode(0, NoneV, st.nodes[i].rc,
                create_seq_node_guarded_by_common_subexpr(st.nodes[i].rc, kids_0, st.next),
                create_seq_node_guarded_by_common_subexpr(st.nodes[j].rc, kids_1,
                                                          st.next + 1))
    IN  [nodes |-> EraseAndPut(st.nodes, kids_0 \o kids_1, IF i < j THEN i ELSE j, new_node),
         new |-> st.new \o <<st.next, st.next + 1>>,
         next |-> st.next + 2]

\* _make_ite: the nodes at (1-based) indices i and j, with the nodes their
\* conditions guard, become the two branches of a ConditionNode
make_ite(st, i, j) ==
    LET node_0 == st.nodes[i]
        node_1 == st.nodes[j]
        pos == IF i > j THEN i ELSE j
        node_0_kids == << <<i, [node_0 EXCEPT !.rc = NoneV], <<node_0.rc>> >> >>
                         \o nodes_guarded_by_common_subexpr(st.nodes, node_0.rc, i + 1)
        node_1_kids == << <<j, [node_1 EXCEPT !.rc = NoneV], <<node_1.rc>> >> >>
                         \o nodes_guarded_by_common_subexpr(st.nodes, node_1.rc, j + 1)
        new_node_0 == create_seq_node_guarded_by_common_subexpr(node_0.rc, node_0_kids, st.next)
        new_node_1 == create_seq_node_guarded_by_common_subexpr(node_1.rc, node_1_kids,
                                                                st.next + 1)
        gone == {node_0_kids[k][1] : k \in 1..Len(node_0_kids)}
                   \cup {node_1_kids[k][1] : k \in 1..Len(node_1_kids)}
        erased == [k \in 1..Len(st.nodes) |-> IF k \in gone THEN NoneV ELSE st.nodes[k]]
        inserted == InsertAt(erased, pos,
                             ConditionNode(0, NoneV, node_0.rc, new_node_0, new_node_1))
    IN  [nodes |-> SelectSeq(inserted, LAMBDA x : x # NoneV),
         new |-> st.new \o <<st.next, st.next + 1>>,
         next |-> st.next + 2]

\* whether the nodes at i and j are a pair _make_ites structures
ItePair(nodes, i, j) ==
    /\ nodes[i].type = "Code" /\ nodes[i].rc # NoneV
    /\ ~ClIsTrue(nodes[i].rc) /\ ~ClIsFalse(nodes[i].rc)
    /\ nodes[j].type = "Code" /\ i # j /\ nodes[j].rc # NoneV
    /\ Equiv(ClNot(nodes[i].rc), nodes[j].rc)

ItePairs(nodes) ==
    {p \in (1..Len(nodes)) \X (1..Len(nodes)) : ItePair(nodes, p[1], p[2])}

\* the pair the two loops of _make_ites find first
FirstItePair(nodes) ==
    CHOOSE p \in ItePairs(nodes) :
        \A q \in ItePairs(nodes) : p[1] < q[1] \/ (p[1] = q[1] /\ p[2] <= q[2])

RECURSIVE make_ites(_)
\* st is [nodes, new, next]
make_ites(st) ==
    IF ItePairs(st.nodes) = {} THEN st
    ELSE make_ites(make_ite(st, FirstItePair(st.nodes)[1], FirstItePair(st.nodes)[2]))

----------------------------------------------------------------------------
\* Switch/case recognition.  A switch state is [nodes, a2n, new, next]: the
\* nodes of seq, addr2nodes, the sequences queued and the identity of the next
\* new sequence.

\* addr2nodes of a list of nodes: a later node of the same address wins
Addr2Nodes(nodes) ==
    [a \in {Addr(nodes[i]) : i \in 1..Len(nodes)} |->
        nodes[CHOOSE i \in 1..Len(nodes) :
                 Addr(nodes[i]) = a /\ \A k \in (i + 1)..Len(nodes) : Addr(nodes[k]) # a]]

\* seq.remove_node: the first node equal to n leaves the list
RemoveNodeFrom(nodes, n) ==
    IF ~InSeq(n, nodes) THEN nodes
    ELSE LET i == CHOOSE k \in 1..Len(nodes) : nodes[k] = n /\ \A m \in 1..(k - 1) : nodes[m] # n
         IN  SubSeq(nodes, 1, i - 1) \o SubSeq(nodes, i + 1, Len(nodes))

\* _switch_extract_cmp_bounds: <<comparison expression, lower bound, upper
\* bound>> of a header that ends in "if (e - lb <= ub) ...", else NoneV
switch_extract_cmp_bounds(last_stmt) ==
    IF last_stmt.type # "Stmt" \/ last_stmt.k # "CJ" THEN NoneV
    ELSE IF last_stmt.cond.op # "CmpLE" THEN NoneV
    ELSE IF last_stmt.cond.args[2].op # "Const" THEN NoneV
    ELSE LET ub == last_stmt.cond.args[2].name
             cmp == last_stmt.cond.args[1]
         IN  IF cmp.op = "Sub" /\ cmp.args[2].op = "Const"
             THEN <<cmp.args[1], cmp.args[2].name, ub + cmp.args[2].name>>
             ELSE <<cmp, 0, ub>>

RECURSIVE UnpackChildren(_, _)
\* the loop of _switch_unpack_sequence_node over the children of node A; it
\* stops at the first Condition node with both or no branch
UnpackChildren(st, kids) ==
    IF kids = <<>> THEN [ok |-> TRUE, st |-> st]
    ELSE LET n == Head(kids)
             the_node ==
                 IF n.type = "Cond"
                 THEN (IF n.true # NoneV /\ n.false = NoneV THEN CodeNode(n.true, n.cond)
                       ELSE IF n.false # NoneV /\ n.true = NoneV THEN CodeNode(n.false, n.cond)
                       ELSE NoneV)
                 ELSE CodeNode(n, NoneV)
         IN  IF the_node = NoneV THEN [ok |-> FALSE, st |-> st]
             ELSE UnpackChildren(
                      [st EXCEPT !.nodes = Append(st.nodes, the_node),
                                 !.a2n = [a \in DOMAIN st.a2n \cup {Addr(n)} |->
                                             IF a = Addr(n) THEN the_node ELSE st.a2n[a]]],
                      Tail(kids))

\* _switch_unpack_sequence_node: [ok, node_a, st]
switch_unpack_sequence_node(st, node_a, jumptable_entries) ==
    LET node_a_block_addrs ==
            IF node_a.node.type = "Seq"
            THEN {Addr(node_a.node.nodes[i]) : i \in 1..Len(node_a.node.nodes)} ELSE {}
        entries == SeqToSet(jumptable_entries)
    IN  IF entries \subseteq DOMAIN st.a2n THEN [ok |-> TRUE, node_a |-> node_a, st |-> st]
        ELSE IF /\ entries \subseteq (node_a_block_addrs \cup DOMAIN st.a2n)
                /\ node_a_block_addrs \subseteq (entries \cup {Addr(node_a)})
        THEN LET u == UnpackChildren(st, node_a.node.nodes)
                 moved == u.st.a2n[Addr(node_a)]
             IN  IF ~u.ok THEN [ok |-> FALSE, node_a |-> NoneV, st |-> u.st]
                 ELSE IF node_a # moved
                 THEN [ok |-> TRUE, node_a |-> moved,
                       st |-> [u.st EXCEPT !.nodes = RemoveNodeFrom(u.st.nodes, node_a)]]
                 ELSE [ok |-> TRUE, node_a |-> node_a, st |-> u.st]
        ELSE [ok |-> FALSE, node_a |-> NoneV, st |-> st]

\* the indices of the nodes after the header that every conjunct of the
\* reaching condition rc guards: guarded_nodes
GuardedNodes(nodes, rc, header_idx) ==
    LET subs == get_ast_subexprs(rc)
        of(c) == LET cs == nodes_guarded_by_common_subexpr(nodes, c, header_idx + 1)
                 IN  {cs[k][1] : k \in 1..Len(cs)}
    IN  IF subs = <<>> THEN {}
        ELSE {i \in 1..Len(nodes) : \A k \in 1..Len(subs) : i \in of(subs[k])}

\* the elements of a set of indices in increasing or in decreasing order: the
\* orders in which the set guarded_nodes is iterated
InOrder(S, descending) ==
    LET up == SeqOfSet(S)
    IN  IF descending THEN [k \in 1..Len(up) |-> up[Len(up) + 1 - k]] ELSE up

\* the position of the entry in the table taken as the key
entry_index(cmp_lb, j) == j

\* the key of the case of entry j (0-based) of the jump table
case_index(cmp_lb, j) == cmp_lb + j

\* the default kept whatever the case ends in
KeepDefault(node_default, case_last_stmt, node_b_addr) == node_default

\* "do we have a default node?": a case body that ends in a goto to node B
\* takes the default away
DefaultAfter(node_default, case_last_stmt, node_b_addr) ==
    IF /\ case_last_stmt # NoneV
       /\ case_last_stmt.k = "Jump"
       /\ extract_jump_targets(case_last_stmt) = <<node_b_addr>>
    THEN NoneV ELSE node_default

RECURSIVE BuildCasesFrom(_, _, _, _, _, _, _)
\* the loop of _switch_build_cases from entry j (0-based) on.  acc is
\* [cases, node_default, to_remove, new, next, exc]; a case body is a new
\* sequence that starts with the entry node and takes the guarded nodes in the
\* order the set is iterated.
BuildCasesFrom(st, header_idx, cmp_lb, jumptable_entries, node_b_addr, descending, acc) ==
    LET j == acc.j
        entry_addr == jumptable_entries[j + 1]
        cases_idx == case_index(cmp_lb, j)
        entry_addrs_set == SeqToSet(jumptable_entries)
        Put(entry_node, body, case_node, case_last_stmt) ==
            IF IsExc(case_last_stmt) THEN [acc EXCEPT !.exc = case_last_stmt.kind]
            ELSE BuildCasesFrom(st, header_idx, cmp_lb, jumptable_entries, node_b_addr,
                     descending,
                     [j |-> j + 1,
                      cases |-> [k \in DOMAIN acc.cases \cup {cases_idx} |->
                                    IF k = cases_idx THEN case_node ELSE acc.cases[k]],
                      node_default |->
                          DefaultAfter(acc.node_default, case_last_stmt, node_b_addr),
                      to_remove |-> acc.to_remove \cup {entry_node}
                                      \cup {body[k] : k \in 1..Len(body)},
                      new |-> Append(acc.new, acc.next),
                      next |-> acc.next + 1,
                      exc |-> ""])
        Case(entry_node, body, case_node) ==
            Put(entry_node, body, case_node, get_last_statement(case_node))
        Body(entry_node, body) ==
            Case(entry_node, body, [type |-> "Seq", sid |-> acc.next, nodes |-> body])
        Guarded(entry_node, guarded) ==
            Body(entry_node,
                 <<entry_node>> \o
                 SelectSeq([k \in 1..Len(guarded) |-> st.nodes[guarded[k]]],
                           LAMBDA x : x # entry_node /\ Addr(x) \notin entry_addrs_set))
        Entry(entry_node, rc) ==
            IF rc = NoneV THEN [acc EXCEPT !.exc = "AttributeError"]
            ELSE Guarded(entry_node,
                         InOrder(GuardedNodes(st.nodes, rc, header_idx), descending))
    IN  IF j >= Len(jumptable_entries) \/ acc.exc # "" THEN acc
        ELSE IF entry_addr = node_b_addr
        THEN BuildCasesFrom(st, header_idx, cmp_lb, jumptable_entries, node_b_addr,
                            descending, [acc EXCEPT !.j = j + 1])
        ELSE IF entry_addr \notin DOMAIN st.a2n THEN [acc EXCEPT !.exc = "KeyError"]
        ELSE Entry(st.a2n[entry_addr], ReachingCondition(st.a2n[entry_addr]))

\* _switch_build_cases(seq, header_idx, cmp_lb, jumptable_entries, node_b_addr,
\* addr2nodes): [cases, node_default, to_remove, new, next, exc]; header_idx is
\* the (1-based) index of the header in seq
switch_build_cases(st, header_idx, cmp_lb, jumptable_entries, node_b_addr, descending) ==
    IF node_b_addr \notin DOMAIN st.a2n
    THEN [j |-> 0, cases |-> <<>>, node_default |-> NoneV, to_remove |-> {},
          new |-> st.new, next |-> st.next, exc |-> "KeyError"]
    ELSE BuildCasesFrom(st, header_idx, cmp_lb, jumptable_entries, node_b_addr, descending,
             [j |-> 0, cases |-> <<>>, node_default |-> st.a2n[node_b_addr], to_remove |-> {},
              new |-> st.new, next |-> st.next, exc |-> ""])

RECURSIVE FindGotos(_)
\* the targets _find_gotos counts below n, in the order the blocks are visited
FindGotos(n) ==
    CASE n.type = "Block" ->
            IF n.statements # <<>> /\ Last(n.statements).k = "Jump"
            THEN extract_jump_targets(Last(n.statements)) ELSE <<>>
      [] n.type = "Code" -> FindGotos(n.node)
      [] n.type = "Seq" -> Flatten([i \in 1..Len(n.nodes) |-> FindGotos(n.nodes[i])])
      [] n.type = "Cond" -> FindGotos(n.true) \o FindGotos(n.false)
      [] n.type = "Loop" -> FindGotos(n.body)
      [] OTHER -> <<>>

\* the target that most gotos of ts go to, the one met first among equals
MostFrequent(ts) ==
    LET cnt(t) == Cardinality({i \in 1..Len(ts) : ts[i] = t})
        firsts == Dedup(ts)
        i == CHOOSE k \in 1..Len(firsts) :
                 /\ \A m \in 1..Len(firsts) : cnt(firsts[m]) <= cnt(firsts[k])
                 /\ \A m \in 1..(k - 1) : cnt(firsts[m]) < cnt(firsts[k])
    IN  firsts[i]

\* whether _rewrite_gotos turns the last statement of block b into a break
GotoTo(b, switch_end_addr) ==
    /\ b.type = "Block" /\ b.statements # <<>>
    /\ Last(b.statements).k = "Jump"
    /\ extract_jump_targets(Last(b.statements)) = <<switch_end_addr>>

RECURSIVE RewriteGotos(_, _)
\* the walk of _rewrite_gotos below n: a block whose parent is a sequence and
\* that ends in a goto to switch_end_addr loses the goto, and a Break node
\* follows it in the parent; under any other parent the block is left alone
RewriteGotos(n, switch_end_addr) ==
    CASE n.type = "Seq" ->
            [n EXCEPT !.nodes = Flatten([i \in 1..Len(n.nodes) |->
                IF GotoTo(n.nodes[i], switch_end_addr)
                THEN <<[n.nodes[i] EXCEPT !.statements = Front(n.nodes[i].statements)],
                       BreakNode(Last(n.nodes[i].statements).ins, switch_end_addr)>>
                ELSE <<RewriteGotos(n.nodes[i], switch_end_addr)>>])]
      [] n.type = "Code" -> [n EXCEPT !.node = RewriteGotos(n.node, switch_end_addr)]
      [] n.type = "Cond" -> [n EXCEPT !.true = RewriteGotos(n.true, switch_end_addr),
                                      !.false = RewriteGotos(n.false, switch_end_addr)]
      [] n.type = "Loop" -> [n EXCEPT !.body = RewriteGotos(n.body, switch_end_addr)]
      [] OTHER -> n

\* _switch_handle_gotos: [cases, default, exc]; known is FALSE when
\* switch_end_addr is None and the end of the switch has to be found from the
\* gotos of the cases
switch_handle_gotos(cases, default, known, switch_end_addr) ==
    LET keys == SeqOfSet(DOMAIN cases)
        gotos == Flatten([i \in 1..Len(keys) |-> FindGotos(cases[keys[i]])])
        end == IF known THEN switch_end_addr ELSE MostFrequent(gotos)
    IN  IF ~known /\ gotos = <<>>
        THEN [cases |-> cases, default |-> default, exc |-> "IndexError"]
        ELSE [cases |-> [k \in DOMAIN cases |-> RewriteGotos(cases[k], end)],
              default |-> IF default = NoneV THEN NoneV ELSE RewriteGotos(default, end),
              exc |-> ""]

\* the candidate _make_switch_cases finds at (1-based) index i of seq: the
\* target with a jump table, or 0
SwitchTarget(st, i, jump_tables) ==
    LET last_stmt == get_last_statement(st.nodes[i])
        succs == IF IsExc(last_stmt) \/ last_stmt = NoneV THEN <<>>
                 ELSE extract_jump_targets(last_stmt)
        hits == SelectSeq(succs, LAMBDA t : t \in DOMAIN st.a2n /\ t \in DOMAIN jump_tables)
    IN  IF Len(succs) # 2 \/ hits = <<>> THEN 0
        ELSE IF switch_extract_cmp_bounds(last_stmt) = NoneV THEN 0
        ELSE hits[1]

\* x put in place of every node of the list equal to old; dropped when empty
PutNode(nodes, old, x) ==
    Flatten([k \in 1..Len(nodes) |->
                IF nodes[k] # old THEN <<nodes[k]>>
                ELSE IF test_empty_node(x) THEN <<>> ELSE <<x>>])

\* the body of the for loop of _make_switch_cases at index i, once the
\* candidate is found: [st, done, exc]; done tells that a switch was made
make_switch_case_at(st0, i, jump_tables, descending) ==
    LET node == st0.nodes[i]
        last_stmt == get_last_statement(node)
        cmp == switch_extract_cmp_bounds(last_stmt)
        succs == extract_jump_targets(last_stmt)
        Insert(u, b, g, node_a2, gone) ==
            IF g.exc # "" THEN [st |-> u.st, done |-> FALSE, exc |-> g.exc]
            ELSE IF IsExc(node_a2) THEN [st |-> u.st, done |-> FALSE, exc |-> node_a2.kind]
            ELSE [st |-> [nodes |->
                            PutNode(PutNode(SelectSeq(InsertAt(u.st.nodes, i + 1,
                                        CodeNode(SwitchCaseNode(cmp[1], g.cases, g.default,
                                                                last_stmt.ins),
                                                 ReachingCondition(node))),
                                        LAMBDA x : x \notin gone),
                                    node, remove_last_statement(node)),
                                    u.node_a, node_a2),
                          a2n |-> [a \in DOMAIN u.st.a2n \ {Addr(x) : x \in gone} |->
                                      u.st.a2n[a]],
                          new |-> b.new, next |-> b.next],
                  done |-> TRUE, exc |-> ""]
        HandleGotos(u, b, node_b_addr) ==
            IF b.exc # "" THEN [st |-> u.st, done |-> FALSE, exc |-> b.exc]
            ELSE Insert(u, b,
                        switch_handle_gotos(b.cases, b.node_default, b.node_default = NoneV,
                                            node_b_addr),
                        remove_last_statement(u.node_a),
                        b.to_remove \cup (IF b.node_default = NoneV THEN {}
                                          ELSE {b.node_default}))
        BuildCases(target, u, node_b_addr) ==
            IF ~u.ok THEN [st |-> u.st, done |-> FALSE, exc |-> ""]
            ELSE HandleGotos(u, switch_build_cases(u.st, i, cmp[2], jump_tables[target],
                                                   node_b_addr, descending), node_b_addr)
        Unpack(target) ==
            BuildCases(target,
                       switch_unpack_sequence_node(st0, st0.a2n[target], jump_tables[target]),
                       IF succs[1] # target THEN succs[1] ELSE succs[2])
    IN  Unpack(SwitchTarget(st0, i, jump_tables))

RECURSIVE make_switch_cases_from(_, _, _, _, _)
\* _make_switch_cases: the for loop from index i on, over the limit nodes seq
\* had when the loop began, started again from the first node after a switch
\* was made; [st, exc]
make_switch_cases_from(st, i, limit, jump_tables, descending) ==
    LET Made(r) ==
            IF r.exc # "" THEN [st |-> r.st, exc |-> r.exc]
            ELSE IF r.done
            THEN make_switch_cases_from(r.st, 1, Len(r.st.nodes), jump_tables, descending)
            ELSE make_switch_cases_from(r.st, i + 1, limit, jump_tables, descending)
        Visit(last_stmt) ==
            IF IsExc(last_stmt) /\ last_stmt.kind # "EmptyBlockNotice"
            THEN [st |-> st, exc |-> last_stmt.kind]
            ELSE IF SwitchTarget(st, i, jump_tables) = 0
            THEN make_switch_cases_from(st, i + 1, limit, jump_tables, descending)
            ELSE Made(make_switch_case_at(st, i, jump_tables, descending))
    IN  IF i > limit \/ i > Len(st.nodes) THEN [st |-> st, exc |-> ""]
        ELSE Visit(get_last_statement(st.nodes[i]))

make_switch_cases(nodes, next, jump_tables, descending) ==
    make_switch_cases_from([nodes |-> nodes, a2n |-> Addr2Nodes(nodes), new |-> <<>>,
                            next |-> next], 1, Len(nodes), jump_tables, descending)

----------------------------------------------------------------------------
\* _structure_sequence and the worklist

\* _structure_sequence on the nodes of one sequence: [nodes, new, next, exc]
structure_sequence(nodes, next, jump_tables, descending) ==
    LET Result(ites) ==
            [nodes |-> ites.nodes, new |-> ites.new, next |-> ites.next, exc |-> ""]
        MakeItes(sw, cse) ==
            Result(make_ites([nodes |-> cse.nodes, new |-> sw.st.new \o cse.new,
                              next |-> cse.next]))
        Rewrite(sw) ==
            IF sw.exc # ""
            THEN [nodes |-> sw.st.nodes, new |-> sw.st.new, next |-> sw.st.next,
                  exc |-> sw.exc]
            ELSE MakeItes(sw,
                    structure_common_subexpression_conditions(
                        merge_same_conditioned_nodes(
                            EmptyNodeRemover(
                                remove_conditional_jumps(
                                    [type |-> "Seq", sid |-> 0, nodes |-> sw.st.nodes],
                                    FALSE)).nodes),
                        sw.st.next))
    IN  Rewrite(make_switch_cases(nodes, next, jump_tables, descending))

RECURSIVE FindSeq(_, _)
\* the nodes of the sequence of identity sid below n, as a one-element list;
\* empty when the sequence is no longer in the tree
FindSeq(n, sid) ==
    CASE n.type = "Seq" ->
            IF n.sid = sid THEN <<n.nodes>>
            ELSE Flatten([i \in 1..Len(n.nodes) |-> FindSeq(n.nodes[i], sid)])
      [] n.type = "Code" -> FindSeq(n.node, sid)
      [] n.type = "Cond" -> FindSeq(n.true, sid) \o FindSeq(n.false, sid)
      [] n.type = "Loop" -> FindSeq(n.body, sid)
      [] n.type = "Switch" ->
            LET keys == SeqOfSet(DOMAIN n.cases)
            IN  Flatten([i \in 1..Len(keys) |-> FindSeq(n.cases[keys[i]], sid)])
                    \o FindSeq(n.default, sid)
      [] OTHER -> <<>>

RECURSIVE PutSeq(_, _, _)
\* n with the nodes of the sequence of identity sid replaced
PutSeq(n, sid, nodes) ==
    CASE n.type = "Seq" ->
            IF n.sid = sid THEN [n EXCEPT !.nodes = nodes]
            ELSE [n EXCEPT !.nodes = [i \in 1..Len(n.nodes) |-> PutSeq(n.nodes[i], sid, nodes)]]
      [] n.type = "Code" -> [n EXCEPT !.node = PutSeq(n.node, sid, nodes)]
      [] n.type = "Cond" -> [n EXCEPT !.true = PutSeq(n.true, sid, nodes),
                                      !.false = PutSeq(n.false, sid, nodes)]
      [] n.type = "Loop" -> [n EXCEPT !.body = PutSeq(n.body, sid, nodes)]
      [] n.type = "Switch" ->
            [n EXCEPT !.cases = [k \in DOMAIN n.cases |-> PutSeq(n.cases[k], sid, nodes)],
                      !.default = PutSeq(n.default, sid, nodes)]
      [] OTHER -> n

\* a turn that leaves the first queued sequence on the worklist
KeepQueued(t, wl, next, jump_tables, descending) ==
    [tree |-> t, worklist |-> wl, next |-> next, exc |-> ""]

\* one turn of the while loop of _analyze_acyclic: the first queued sequence is
\* structured in place; [tree, worklist, next, exc]
structure_next(t, wl, next, jump_tables, descending) ==
    LET Put(r) ==
            [tree |-> PutSeq(t, Head(wl), r.nodes), worklist |-> Tail(wl) \o r.new,
             next |-> r.next, exc |-> r.exc]
        Structure_(found) ==
            IF found = <<>>
            THEN [tree |-> t, worklist |-> Tail(wl), next |-> next, exc |-> ""]
            ELSE Put(structure_sequence(found[1], next, jump_tables, descending))
    IN  Structure_(FindSeq(t, Head(wl)))

----------------------------------------------------------------------------
\* The passes that close the acyclic pipeline

\* claripy.And / claripy.Or / simplification are applied to formulas; handed an
\* IL expression they raise
BothClaripy(a, b) == IsClaripy(a) /\ IsClaripy(b)

RECURSIVE make_condition_nodes(_)
\* _make_condition_nodes on the nodes of a sequence
make_condition_nodes(nodes) ==
    [i \in 1..Len(nodes) |->
        LET n0 == nodes[i]
            node == IF n0.type = "Code" /\ n0.node.type = "Seq"
                    THEN [n0 EXCEPT !.node.nodes = make_condition_nodes(n0.node.nodes)]
                    ELSE n0
        IN  IF node.type = "Code" /\ node.rc # NoneV /\ ~ClIsTrue(node.rc)
            THEN (IF node.node.type = "CBreak"
                  THEN CodeNode(ConditionalBreakNode(node.node.addr,
                                                     ClAnd(<<node.rc, node.node.cond>>),
                                                     node.node.target), NoneV)
                  ELSE ConditionNode(Addr(node), NoneV, node.rc, node, NoneV))
            ELSE node]

RECURSIVE make_condition_nodes_raises(_)
\* whether _make_condition_nodes raises: a reaching condition is conjoined with
\* a break condition and one of the two is an IL expression
make_condition_nodes_raises(nodes) ==
    \E i \in 1..Len(nodes) :
        /\ nodes[i].type = "Code"
        /\ \/ nodes[i].node.type = "Seq" /\ make_condition_nodes_raises(nodes[i].node.nodes)
           \/ /\ nodes[i].rc # NoneV /\ ~ClIsTrue(nodes[i].rc)
              /\ nodes[i].node.type = "CBreak"
              /\ ~BothClaripy(nodes[i].rc, nodes[i].node.cond)

\* a node left in its Code node
KeepCode(n) == n

Unwrap(n) == IF n.type = "Code" THEN n.node ELSE n

\* a merge that keeps, of ConditionalBreaks side by side, only the last
DropEarlierBreaks(nodes, new_nodes) ==
    LET un == [i \in 1..Len(nodes) |-> Unwrap(nodes[i])]
        keep == SelectSeq([i \in 1..Len(nodes) |-> i],
                          LAMBDA i : ~(/\ un[i].type = "CBreak" /\ i < Len(nodes)
                                       /\ un[i + 1].type = "CBreak"))
    IN  [k \in 1..Len(keep) |-> un[keep[k]]]

RECURSIVE merge_conditional_breaks(_)
RECURSIVE MergeBreaksIn(_, _)
\* the handler of _merge_conditional_breaks on the nodes of one sequence: every
\* node is taken out of its Code node; a ConditionalBreak that follows one is
\* merged with it; any other node is walked
MergeBreaksIn(nodes, new_nodes) ==
    IF nodes = <<>> THEN new_nodes
    ELSE LET node == Unwrap(Head(nodes))
         IN  IF node.type = "CBreak" /\ new_nodes # <<>>
             THEN (IF Unwrap(Last(new_nodes)).type = "CBreak"
                   THEN MergeBreaksIn(Tail(nodes),
                            Append(Front(new_nodes),
                                   ConditionalBreakNode(node.addr,
                                       simplify_condition(
                                           ClOr(<<node.cond, Unwrap(Last(new_nodes)).cond>>)),
                                       node.target)))
                   ELSE MergeBreaksIn(Tail(nodes), Append(new_nodes, node)))
             ELSE MergeBreaksIn(Tail(nodes), Append(new_nodes, merge_conditional_breaks(node)))

\* the walk of _merge_conditional_breaks below n
merge_conditional_breaks(n) ==
    CASE n.type = "Seq" -> [n EXCEPT !.nodes = MergeBreaksIn(n.nodes, <<>>)]
      [] n.type = "Code" -> [n EXCEPT !.node = merge_conditional_breaks(n.node)]
      [] n.type = "Cond" -> [n EXCEPT !.true = merge_conditional_breaks(n.true),
                                      !.false = merge_conditional_breaks(n.false)]
      [] n.type = "Loop" -> [n EXCEPT !.body = merge_conditional_breaks(n.body)]
      [] n.type = "Switch" ->
            [n EXCEPT !.cases = [k \in DOMAIN n.cases |-> merge_conditional_breaks(n.cases[k])],
                      !.default = merge_conditional_breaks(n.default)]
      [] OTHER -> n

RECURSIVE merge_conditional_breaks_raises(_)
\* whether the walk raises: two adjacent ConditionalBreaks are merged and one
\* of the conditions is an IL expression
merge_conditional_breaks_raises(n) ==
    CASE n.type = "Seq" ->
            \/ \E i \in 2..Len(n.nodes) :
                  /\ Unwrap(n.nodes[i]).type = "CBreak"
                  /\ Unwrap(n.nodes[i - 1]).type = "CBreak"
                  /\ ~BothClaripy(Unwrap(n.nodes[i]).cond, Unwrap(n.nodes[i - 1]).cond)
            \/ \E i \in 1..Len(n.nodes) : merge_conditional_breaks_raises(Unwrap(n.nodes[i]))
      [] n.type = "Code" -> merge_conditional_breaks_raises(n.node)
      [] n.type = "Cond" -> merge_conditional_breaks_raises(n.true)
                               \/ merge_conditional_breaks_raises(n.false)
      [] n.type = "Loop" -> merge_conditional_breaks_raises(n.body)
      [] n.type = "Switch" ->
            \/ \E k \in DOMAIN n.cases : merge_conditional_breaks_raises(n.cases[k])
            \/ merge_conditional_breaks_raises(n.default)
      [] OTHER -> FALSE

\* _condnode_truenode_only: the Condition node with only a true branch that
\* node is or wraps, else NoneV
condnode_truenode_only(node) ==
    LET n == Unwrap(node)
    IN  IF n.type = "Cond" /\ n.true # NoneV /\ n.false = NoneV THEN n ELSE NoneV

RECURSIVE condbreaknode(_)
\* _condbreaknode: the ConditionalBreak that node is, wraps or is the only
\* node of, else NoneV
condbreaknode(node) ==
    LET n == Unwrap(node)
    IN  IF n.type = "Seq"
        THEN (IF Len(n.nodes) # 1 THEN NoneV ELSE condbreaknode(n.nodes[1]))
        ELSE IF n.type = "CBreak" THEN n ELSE NoneV

\* the handler of _merge_nesting_conditionals on one node of the sequence
merge_nesting_conditional(node) ==
    LET cond_node == condnode_truenode_only(node)
        cond_node_inner == condnode_truenode_only(node.true)
        condbreak_node == condbreaknode(node.true)
    IN  IF cond_node = NoneV THEN node
        ELSE IF cond_node_inner # NoneV
        THEN ConditionNode(cond_node.addr, NoneV,
                           simplify_condition(ClAnd(<<cond_node.cond, cond_node_inner.cond>>)),
                           cond_node_inner.true, NoneV)
        ELSE IF condbreak_node # NoneV
        THEN ConditionalBreakNode(condbreak_node.addr,
                 simplify_condition(ClAnd(<<cond_node.cond, condbreak_node.cond>>)),
                 condbreak_node.target)
        ELSE node

\* _merge_nesting_conditionals: the handler runs on the sequence the walk
\* starts at and walks no further
merge_nesting_conditionals(seq) ==
    [seq EXCEPT !.nodes = [i \in 1..Len(seq.nodes) |-> merge_nesting_conditional(seq.nodes[i])]]

\* whether _merge_nesting_conditionals raises: the true branch is read from a
\* Code node, or a condition to conjoin is an IL expression
merge_nesting_conditionals_raises(seq) ==
    \E i \in 1..Len(seq.nodes) :
        LET node == seq.nodes[i]
            cond_node == condnode_truenode_only(node)
        IN  /\ cond_node # NoneV
            /\ \/ node.type = "Code"
               \/ /\ condnode_truenode_only(node.true) # NoneV
                  /\ ~BothClaripy(cond_node.cond, condnode_truenode_only(node.true).cond)
               \/ /\ condnode_truenode_only(node.true) = NoneV
                  /\ condbreaknode(node.true) # NoneV
                  /\ ~BothClaripy(cond_node.cond, condbreaknode(node.true).cond)

RECURSIVE remove_claripy_bool_asts(_)
\* _remove_claripy_bool_asts: the tree rebuilt with every formula converted
remove_claripy_bool_asts(node) ==
    CASE node.type = "Seq" ->
            SequenceNode([i \in 1..Len(node.nodes) |-> remove_claripy_bool_asts(node.nodes[i])])
      [] node.type = "Code" ->
            CodeNode(remove_claripy_bool_asts(node.node),
                     IF node.rc = NoneV THEN NoneV ELSE convert_claripy_bool_ast(node.rc))
      [] node.type = "CBreak" ->
            ConditionalBreakNode(node.addr, convert_claripy_bool_ast(node.cond), node.target)
      [] node.type = "Cond" ->
            ConditionNode(node.addr,
                          IF node.rc = NoneV THEN NoneV ELSE convert_claripy_bool_ast(node.rc),
                          convert_claripy_bool_ast(node.cond),
                          remove_claripy_bool_asts(node.true),
                          remove_claripy_bool_asts(node.false))
      [] node.type = "Loop" ->
            LoopNode(node.sort, node.cond, remove_claripy_bool_asts(node.body), node.addr)
      [] node.type = "Switch" ->
            SwitchCaseNode(convert_claripy_bool_ast(node.expr),
                           [k \in DOMAIN node.cases |-> remove_claripy_bool_asts(node.cases[k])],
                           remove_claripy_bool_asts(node.default), node.addr)
      [] OTHER -> node

RECURSIVE Formulas(_)
\* the conditions _remove_claripy_bool_asts converts below node
Formulas(node) ==
    CASE node.type = "Seq" -> UNION {Formulas(node.nodes[i]) : i \in 1..Len(node.nodes)}
      [] node.type = "Code" -> Formulas(node.node) \cup {node.rc}
      [] node.type = "CBreak" -> {node.cond}
      [] node.type = "Cond" ->
            Formulas(node.true) \cup Formulas(node.false) \cup {node.rc, node.cond}
      [] node.type = "Loop" -> Formulas(node.body)
      [] node.type = "Switch" ->
            UNION {Formulas(node.cases[k]) : k \in DOMAIN node.cases}
                \cup Formulas(node.default) \cup {node.expr}
      [] OTHER -> {}

\* whether _remove_claripy_bool_asts raises NotImplementedError
remove_claripy_bool_asts_raises(node, mapping) ==
    \E c \in Formulas(node) : ~Convertible(c, mapping)

----------------------------------------------------------------------------
\* The cyclic pipeline.  A region is [head, graph, gws, content, jump_tables]:
\* gws is graph_with_successors, content gives the node at each address.

\* the loop nodes left as the component of the head
NoExtension(graph, loop_nodes) == loop_nodes

RECURSIVE ExtendLoopNodes(_, _)
\* the loop nodes extended with every successor all of whose predecessors are
\* loop nodes, until no node can be added
ExtendLoopNodes(graph, loop_nodes) ==
    LET more == {s \in SeqToSet(graph.ns) \ loop_nodes :
                    /\ \E n \in loop_nodes : HasEdge(graph, n, s)
                    /\ SeqToSet(Predecessors(graph, s)) \subseteq loop_nodes}
    IN  IF more = {} THEN loop_nodes ELSE ExtendLoopNodes(graph, loop_nodes \cup more)

\* Case A: the nodes first reached from a loop node that are not loop nodes
SuccessorsInRegion(graph, head, loop_nodes) ==
    LET bfs == bfs_successors(graph, head)
    IN  UNION {SeqToSet(bfs[i][2]) \ loop_nodes :
                  i \in {k \in 1..Len(bfs) : bfs[k][1] \in loop_nodes}}

RECURSIVE SuccessorsInParents(_, _)
\* Case B: the successors of the region in the graph of the nearest ancestor
\* that gives it any; parent_levels lists them ancestor by ancestor
SuccessorsInParents(parent_levels, loop_nodes) ==
    IF parent_levels = <<>> THEN {}
    ELSE LET here == SeqToSet(Head(parent_levels)) \ loop_nodes
         IN  IF here # {} THEN here ELSE SuccessorsInParents(Tail(parent_levels), loop_nodes)

\* _find_loop_nodes_and_successors: [loop_nodes, successors]; has_parent_map
\* tells whether the Structurer was given a parent_map
find_loop_nodes_and_successors(reg, has_parent_map, parent_levels) ==
    LET loop_nodes == ExtendLoopNodes(reg.graph, Component(reg.graph, reg.head))
        inside == SuccessorsInRegion(reg.graph, reg.head, loop_nodes)
    IN  [loop_nodes |-> loop_nodes,
         successors |-> IF inside = {} /\ has_parent_map
                        THEN SuccessorsInParents(parent_levels, loop_nodes) ELSE inside]

\* the address of the Condition node _refine_loop_successors creates
CondAddr == -1

RECURSIVE RefineCond(_, _, _, _)
\* the chain of Condition nodes over the successors: the first one innermost
RefineCond(successors, conds, content, cond) ==
    IF successors = <<>> THEN cond
    ELSE RefineCond(Tail(successors), conds, content,
                    ConditionNode(CondAddr, NoneV, conds[Head(successors)],
                                  content[Head(successors)], cond))

\* the rewiring of one edge src -> succ to src -> cond: [graph, content, exc]
RefineEdge(st, src, succ) ==
    LET into_src == SelectSeq(st.graph.es, LAMBDA e : e[2] = src)
        cut == [st.graph EXCEPT !.es = SelectSeq(st.graph.es,
                                           LAMBDA e : e[2] # src /\ e # <<src, succ>>)]
        last_stmt == get_last_statement(st.content[src])
        new_last_stmt == IF last_stmt.t = succ
                         THEN [last_stmt EXCEPT !.t = CondAddr]
                         ELSE [last_stmt EXCEPT !.f = CondAddr]
        src2 == append_statement(remove_last_statement(st.content[src]), new_last_stmt)
        back == [cut EXCEPT !.es = cut.es \o SelectSeq(into_src, LAMBDA e : e # <<src, succ>>)]
    IN  IF st.exc # "" THEN st
        ELSE IF IsExc(last_stmt) THEN [st EXCEPT !.exc = last_stmt.kind]
        ELSE IF last_stmt = NoneV \/ last_stmt.k # "CJ"
        THEN [st EXCEPT !.exc = "NotImplementedError"]
        ELSE IF last_stmt.t # succ /\ last_stmt.f # succ THEN [st EXCEPT !.exc = "Exception"]
        ELSE IF IsExc(src2) THEN [st EXCEPT !.exc = src2.kind]
        ELSE [graph |-> AddEdge(back, src, CondAddr),
              content |-> [st.content EXCEPT ![src] = src2],
              exc |-> ""]

RECURSIVE RefineEdges(_, _, _)
RefineEdges(st, srcs, succ) ==
    IF srcs = <<>> THEN st
    ELSE RefineEdges(RefineEdge(st, Head(srcs), succ), Tail(srcs), succ)

RECURSIVE RefineSuccessorEdges(_, _)
\* the loop over the successors: every edge into a successor is rewired
RefineSuccessorEdges(st, successors) ==
    IF successors = <<>> THEN st
    ELSE RefineSuccessorEdges(
             RefineEdges(st, Predecessors(st.graph, Head(successors)), Head(successors)),
             Tail(successors))

\* _refine_loop_successors: the region with every edge into a successor
\* redirected to one new Condition node; [region, conds, leaves, exc].
\* descending tells the order in which the set of successors is listed.
refine_loop_successors(reg, loop_successors, descending) ==
    LET successors == InOrder(loop_successors, descending)
        failed(conds, kind) == [region |-> reg, conds |-> conds, leaves |-> {}, exc |-> kind]
        Rewired(conds, wired) ==
            IF wired.exc # "" THEN failed(conds, wired.exc)
            ELSE [region |->
                     [reg EXCEPT
                         !.graph = wired.graph,
                         !.content = [a \in DOMAIN wired.content \cup {CondAddr} |->
                                         IF a = CondAddr
                                         THEN RefineCond(successors, conds, reg.content, NoneV)
                                         ELSE wired.content[a]]],
                  conds |-> conds,
                  leaves |-> recover_leaves(reg.graph, reg.content),
                  exc |-> ""]
        Refine(conds) ==
            IF ~(loop_successors \subseteq DOMAIN conds) THEN failed(conds, "KeyError")
            ELSE Rewired(conds,
                         RefineSuccessorEdges([graph |-> reg.graph, content |-> reg.content,
                                               exc |-> ""], successors))
        Recovered(exc0) ==
            IF exc0 # "" THEN failed(<<>>, exc0)
            ELSE Refine(recover_reaching_conditions(reg.graph, reg.head, reg.content))
    IN  Recovered(recover_exception(reg.graph, reg.content))

\* _loop_create_break_node for a node whose last statement leaves the loop:
\* [node, content, graph, exc].  node names the node the out-edges start from
\* afterwards: a Break or ConditionalBreak node, which takes the place of the
\* block when the block is left empty and follows it otherwise.
loop_create_break_node(node, last_stmt, lrg, content, loop_nodes, loop_successor_addrs) ==
    LET out_true == last_stmt.t \in loop_successor_addrs /\ last_stmt.f \in loop_nodes
        out_false == last_stmt.f \in loop_successor_addrs /\ last_stmt.t \in loop_nodes
        preds == Predecessors(lrg, node)
        moved == LET g0 == AddNode(RemoveNode(lrg, node), node)
                 IN  [g0 EXCEPT !.es = g0.es \o [i \in 1..Len(preds) |-> <<preds[i], node>>]]
        Put(shrunk, a, x) ==
            [b \in DOMAIN content \cup {a} |->
                IF b = a THEN x ELSE IF b = node THEN shrunk ELSE content[b]]
        Break(shrunk, new_node) ==
            IF IsExc(shrunk)
            THEN [node |-> node, content |-> content, graph |-> lrg, exc |-> shrunk.kind]
            ELSE IF shrunk.type = "Block" /\ shrunk.statements = <<>>
            THEN [node |-> node,
                  content |-> Put(shrunk, node, [new_node EXCEPT !.addr = node]),
                  graph |-> moved, exc |-> ""]
            ELSE [node |-> new_node.addr,
                  content |-> Put(shrunk, new_node.addr, new_node),
                  graph |-> AddEdge(lrg, node, new_node.addr), exc |-> ""]
    IN  IF last_stmt.k \notin {"Jump", "CJ"}
        THEN [node |-> node, content |-> content, graph |-> lrg, exc |-> ""]
        ELSE IF last_stmt.k = "CJ" /\ ~out_true /\ ~out_false
        THEN [node |-> node, content |-> content, graph |-> lrg, exc |-> "Exception"]
        ELSE Break(remove_last_statement(content[node]),
                   IF last_stmt.k = "Jump" THEN BreakNode(last_stmt.ins, last_stmt.t)
                   ELSE IF out_true
                   THEN ConditionalBreakNode(last_stmt.ins,
                                             claripy_ast_from_ail_condition(last_stmt.cond),
                                             last_stmt.t)
                   ELSE ConditionalBreakNode(last_stmt.ins,
                            claripy_ast_from_ail_condition(AilNot(last_stmt.cond)),
                            last_stmt.f))

RECURSIVE BodyEdges(_, _, _, _, _)
\* the loop over the successors of a traversed node (node names the node the
\* edges start from): an edge to a loop successor is set aside, an edge to the
\* loop head is dropped, any other is added and its end queued
BodyEdges(st, node, dsts, loop_head, loop_successor_addrs) ==
    IF dsts = <<>> THEN st
    ELSE LET dst == Head(dsts)
             next ==
                 IF dst \in loop_successor_addrs
                 THEN [st EXCEPT !.outedges = Append(st.outedges, <<node, dst>>)]
                 ELSE [st EXCEPT
                          !.graph = IF dst # loop_head THEN AddEdge(st.graph, node, dst)
                                    ELSE st.graph,
                          !.queue = IF dst \in st.traversed \/ InSeq(dst, st.queue)
                                    THEN st.queue ELSE Append(st.queue, dst)]
         IN  BodyEdges(next, node, Tail(dsts), loop_head, loop_successor_addrs)

RECURSIVE BodyTraverse(_, _, _, _)
\* the traversal of _to_loop_body_sequence over graph_with_successors; st is
\* [queue, traversed, graph, content, outedges, leaves, exc]
BodyTraverse(st, gws, loop_head, loop_successor_addrs) ==
    LET node == Head(st.queue)
        Edges(st1, b) ==
            IF b.exc # "" THEN st1
            ELSE BodyTraverse(BodyEdges(st1, b.node, Successors(gws, node), loop_head,
                                        loop_successor_addrs),
                              gws, loop_head, loop_successor_addrs)
        Break(last_stmt, leaves, b) ==
            Edges([queue |-> Tail(st.queue), traversed |-> st.traversed \cup {node},
                   graph |-> b.graph, content |-> b.content, outedges |-> st.outedges,
                   leaves |-> st.leaves \cup
                              (IF leaves /\ last_stmt.k = "CJ" THEN AilLeaves(last_stmt.cond)
                               ELSE {}),
                   exc |-> b.exc], b)
        Leaves(last_stmt, leaves) ==
            Break(last_stmt, leaves,
                  IF leaves
                  THEN loop_create_break_node(node, last_stmt, AddNode(st.graph, node),
                                              st.content, SeqToSet(gws.ns),
                                              loop_successor_addrs)
                  ELSE [node |-> node, content |-> st.content,
                        graph |-> AddNode(st.graph, node), exc |-> ""])
        Visit(last_stmt) ==
            IF IsExc(last_stmt) THEN [st EXCEPT !.exc = last_stmt.kind]
            ELSE Leaves(last_stmt,
                        last_stmt # NoneV /\
                        \E t \in SeqToSet(extract_jump_targets(last_stmt)) :
                            t \in loop_successor_addrs)
        Last_(got) ==
            Visit(IF IsExc(got) /\ got.kind = "EmptyBlockNotice" THEN NoneV ELSE got)
    IN  IF st.queue = <<>> \/ st.exc # "" THEN st
        ELSE Last_(get_last_statement(st.content[node]))

\* the region _to_loop_body_sequence hands to the Structurer of the loop body:
\* [region, leaves, exc]
loop_body_region(reg, loop_head, loop_successors) ==
    LET Body(t) ==
            [region |-> [head |-> loop_head, graph |-> t.graph,
                         gws |-> [ns |-> t.graph.ns \o
                                         SelectSeq(Dedup([i \in 1..Len(t.outedges) |->
                                                             t.outedges[i][2]]),
                                                   LAMBDA d : ~InSeq(d, t.graph.ns)),
                                  es |-> t.graph.es \o Dedup(t.outedges)],
                         content |-> t.content, jump_tables |-> reg.jump_tables],
             leaves |-> t.leaves, exc |-> t.exc]
    IN  Body(BodyTraverse([queue |-> <<loop_head>>, traversed |-> {}, graph |-> EmptyGraph,
                           content |-> reg.content, outedges |-> <<>>, leaves |-> {},
                           exc |-> ""],
                          reg.gws, loop_head, loop_successors))

\* the result seq of that Structurer taken as the loop body as it is
KeepBody(seq, loop_head) == seq

\* what _to_loop_body_sequence does with the result seq of that Structurer:
\* the closing goto to the loop head is removed; the body or an exception
loop_body_of(seq, loop_head) ==
    LET last_stmt == get_last_statement(seq)
        cut == remove_last_statement(seq)
    IN  IF IsExc(last_stmt) THEN last_stmt
        ELSE IF last_stmt # NoneV /\ last_stmt.k = "Jump"
        THEN (IF last_stmt.t = 0 THEN Exc("AttributeError")
              ELSE IF last_stmt.t # loop_head THEN Exc("Exception")
              ELSE IF IsExc(cut) THEN cut
              ELSE EmptyNodeRemover(cut))
        ELSE EmptyNodeRemover(seq)

\* _refine_loop_while: an endless loop whose body starts with a
\* ConditionalBreak becomes a while loop; the loop node or IndexError
refine_loop_while(loop_node) ==
    IF loop_node.sort = "while" /\ loop_node.cond = NoneV
    THEN (IF loop_node.body.nodes = <<>> THEN Exc("IndexError")
          ELSE LET first_node == Unwrap(loop_node.body.nodes[1])
               IN  IF first_node.type = "CBreak"
                   THEN LoopNode("while", negate_cond(first_node.cond),
                                 [loop_node.body EXCEPT !.nodes = Tail(loop_node.body.nodes)],
                                 loop_node.addr)
                   ELSE loop_node)
    ELSE loop_node

\* _refine_loop_dowhile: an endless loop whose body ends with a
\* ConditionalBreak becomes a do-while loop (which is given no address)
refine_loop_dowhile(loop_node) ==
    IF loop_node.sort = "while" /\ loop_node.cond = NoneV
    THEN (IF loop_node.body.nodes = <<>> THEN Exc("IndexError")
          ELSE LET last_node == Last(loop_node.body.nodes)
               IN  IF last_node.type = "CBreak"
                   THEN LoopNode("do-while", negate_cond(last_node.cond),
                                 [loop_node.body EXCEPT !.nodes = Front(loop_node.body.nodes)],
                                 0)
                   ELSE loop_node)
    ELSE loop_node

\* _refine_loop: one pass of each suffices, a refined loop has a condition
refine_loop(loop_node) ==
    LET w == refine_loop_while(loop_node)
    IN  IF IsExc(w) THEN w ELSE IF w # loop_node THEN w ELSE refine_loop_dowhile(loop_node)

\* the end of _analyze_cyclic: the sequence of the loop and of the successors
\* that are nodes of the region graph, with every formula converted
finish_cyclic(reg, loop_node, successors, mapping) ==
    LET succs == SelectSeq(successors, LAMBDA a : HasNode(reg.graph, a))
        seq == SequenceNode(<<loop_node>> \o [i \in 1..Len(succs) |-> reg.content[succs[i]]])
    IN  IF remove_claripy_bool_asts_raises(seq, mapping)
        THEN [result |-> NoneV, exc |-> "NotImplementedError"]
        ELSE [result |-> remove_claripy_bool_asts(seq), exc |-> ""]

----------------------------------------------------------------------------
\* The regions the analysis is run on

NumNodes == 3      \* blocks of a region: addresses 10, 20, ..
NumExt == 1        \* successors of a region (blocks outside its graph)

BlockAddrs == {10 * i : i \in 1..NumNodes}
ExtAddrs == {10 * (NumNodes + i) : i \in 1..NumExt}

\* how a block ends: no jump (a return), a goto, or a conditional jump on the
\* condition of the block
Terminators ==
    {<<"Ret", 0, 0>>}
        \cup {<<"Jump", t, 0>> : t \in BlockAddrs \cup ExtAddrs}
        \cup {<<"CJ", t, f>> : <<t, f>> \in {p \in (BlockAddrs \cup ExtAddrs)
                                                 \X (BlockAddrs \cup ExtAddrs) : p[1] # p[2]}}

\* the IL block at address a: an assignment, then the terminator; a block
\* that ends as "Empty" holds no statement at all
BlockOf(a, term) ==
    IF term[1] = "Empty" THEN Block(a, <<>>)
    ELSE IF term[1] = "Test" THEN Block(a, <<CJ(a + 2, AilVar(a), term[2], term[3])>>)
    ELSE IF term[1] = "Goto" THEN Block(a, <<Jump(a + 2, term[2])>>)
    ELSE Block(a, <<Assign(a + 1)>> \o
                  (CASE term[1] = "Jump" -> <<Jump(a + 2, term[2])>>
                     [] term[1] = "CJ" -> <<CJ(a + 2, AilVar(a), term[2], term[3])>>
                     [] OTHER -> <<>>))

\* where a block goes on: to the targets of its terminator; an empty block
\* falls through to the block named, if any
TargetsOf(term) ==
    CASE term[1] \in {"Jump", "Goto"} -> <<term[2]>>
      [] term[1] \in {"CJ", "Test"} -> <<term[2], term[3]>>
      [] term[1] = "Empty" /\ term[2] # 0 -> <<term[2]>>
      [] OTHER -> <<>>

\* the region of head 10 whose blocks end as terms says (a function on the
\* block addresses): graph holds the edges between blocks of the region,
\* graph_with_successors also those that leave it
RegionOf(terms, addrs) ==
    LET order == SeqOfSet(addrs)
        edges == Flatten([i \in 1..Len(order) |->
                     [k \in 1..Len(TargetsOf(terms[order[i]])) |->
                         <<order[i], TargetsOf(terms[order[i]])[k]>>]])
        exts == SeqOfSet({e[2] : e \in SeqToSet(edges)} \ addrs)
    IN  [head |-> 10,
         graph |-> [ns |-> order, es |-> SelectSeq(edges, LAMBDA e : e[2] \in addrs)],
         gws |-> [ns |-> order \o exts, es |-> edges],
         content |-> [a \in addrs \cup SeqToSet(exts) |->
                         IF a \in addrs THEN BlockOf(a, terms[a])
                         ELSE Block(a, <<Assign(a + 1)>>)],
         jump_tables |-> <<>>]

\* a region is a graph whose nodes are all reached from its head
WellFormed(reg) == ReachFrom(reg.graph, {reg.head}, {}) = SeqToSet(reg.graph.ns)

\* the successors of the region in the graph of its parent
ParentLevels(reg) ==
    LET exts == SelectSeq(reg.gws.ns, LAMBDA a : ~HasNode(reg.graph, a))
    IN  IF exts = <<>> THEN <<>> ELSE <<exts>>

Regions ==
    {reg \in {RegionOf(terms, BlockAddrs \cap DOMAIN terms) :
                 terms \in UNION {[{10 * i : i \in 1..n} -> Terminators] : n \in 1..NumNodes}} :
        WellFormed(reg)}

----------------------------------------------------------------------------
\* Structurer._analyze on one region, step by step


\* no RecursiveStructurer runs: the Structurer was made for one region
DriverOff == [pc |-> "off", input |-> NoneV, root |-> NoneV, stack |-> <<>>,
              parent_map |-> <<>>, current |-> <<>>, structured |-> <<>>, result |-> NoneV]

NoLoop == [loop_nodes |-> {}, successors |-> {}, loop_node |-> NoneV, descending |-> FALSE]

\* Structurer.__init__: the state of a Structurer of region reg
Construct(reg, parent_map, condition_mapping) ==
    /\ region' = reg
    /\ parents' = parent_map
    /\ cmap' = condition_mapping
    /\ pc' = "analyze"
    /\ rcs' = <<>>
    /\ tree' = NoneV
    /\ worklist' = <<>>
    /\ nextSid' = 1
    /\ loopst' = NoLoop
    /\ result' = NoneV

Init ==
    /\ region \in Regions
    /\ parents = [given |-> TRUE, levels |-> ParentLevels(region)]
    /\ pc = "analyze"
    /\ rcs = <<>>
    /\ cmap = {}
    /\ tree = NoneV
    /\ worklist = <<>>
    /\ nextSid = 1
    /\ loopst = NoLoop
    /\ result = NoneV
    /\ inner = NoneV
    /\ stack = <<>>
    /\ err = ""
    /\ driver = DriverOff
    /\ tick = FALSE
    /\ locals = NoneV

\* the analysis ends with exception kind
Raise(kind) == pc' = "failed" /\ err' = kind

\* _analyze: the cyclic or the acyclic pipeline
Analyze ==
    /\ pc = "analyze"
    /\ pc' = IF ~is_directed_acyclic_graph(region.graph) THEN "find_loop" ELSE "recover"
    /\ UNCHANGED <<region, parents, rcs, cmap, tree, worklist, nextSid, loopst, result,
                   inner, stack, err>>
    /\ UNCHANGED driver
    /\ tick' = ~tick
    /\ locals' = locals

RecoverReachingConditions ==
    /\ pc = "recover"
    /\ \E exc \in {recover_exception(region.graph, region.content)} :
           IF exc # "" THEN Raise(exc) /\ UNCHANGED <<rcs, cmap>>
           ELSE /\ rcs' = recover_reaching_conditions(region.graph, region.head, region.content)
                /\ cmap' = cmap \cup recover_leaves(region.graph, region.content)
                /\ pc' = "make_sequence"
                /\ err' = err
    /\ UNCHANGED <<region, parents, tree, worklist, nextSid, loopst, result, inner, stack>>
    /\ UNCHANGED driver
    /\ tick' = ~tick
    /\ locals' = locals

MakeSequence ==
    /\ pc = "make_sequence"
    /\ tree' = make_sequence(region.graph, region.content, rcs)
    /\ worklist' = <<1>>
    /\ nextSid' = 2
    /\ pc' = "worklist"
    /\ UNCHANGED <<region, parents, rcs, cmap, loopst, result, inner, stack, err>>
    /\ UNCHANGED driver
    /\ tick' = ~tick
    /\ locals' = locals

\* one turn of the while loop over _new_sequences
StructureSequence ==
    /\ pc = "worklist" /\ worklist # <<>>
    /\ \E descending \in BOOLEAN :
       \E r \in {structure_next(tree, worklist, nextSid, region.jump_tables, descending)} :
           /\ tree' = r.tree
           /\ worklist' = r.worklist
           /\ nextSid' = r.next
           /\ IF r.exc # "" THEN Raise(r.exc) ELSE pc' = pc /\ err' = err
    /\ UNCHANGED <<region, parents, rcs, cmap, loopst, result, inner, stack>>
    /\ UNCHANGED driver
    /\ tick' = ~tick
    /\ locals' = locals

\* _remove_conditional_jumps on the whole tree, then EmptyNodeRemover
RemoveConditionalJumps ==
    /\ pc = "worklist" /\ worklist = <<>>
    /\ tree' = EmptyNodeRemover(remove_conditional_jumps(tree, TRUE))
    /\ pc' = "make_condition_nodes"
    /\ UNCHANGED <<region, parents, rcs, cmap, worklist, nextSid, loopst, result, inner,
                   stack, err>>
    /\ UNCHANGED driver
    /\ tick' = ~tick
    /\ locals' = locals

MakeConditionNodes ==
    /\ pc = "make_condition_nodes"
    /\ IF make_condition_nodes_raises(tree.nodes)
       THEN Raise("ClaripyOperationError") /\ tree' = tree
       ELSE /\ tree' = [tree EXCEPT !.nodes = make_condition_nodes(tree.nodes)]
            /\ pc' = "merge_conditional_breaks"
            /\ err' = err
    /\ UNCHANGED <<region, parents, rcs, cmap, worklist, nextSid, loopst, result, inner, stack>>
    /\ UNCHANGED driver
    /\ tick' = ~tick
    /\ locals' = locals

MergeConditionalBreaks ==
    /\ pc = "merge_conditional_breaks"
    /\ IF merge_conditional_breaks_raises(tree)
       THEN Raise("ClaripyOperationError") /\ tree' = tree
       ELSE /\ tree' = merge_conditional_breaks(tree)
            /\ pc' = "merge_nesting_conditionals"
            /\ err' = err
    /\ UNCHANGED <<region, parents, rcs, cmap, worklist, nextSid, loopst, result, inner, stack>>
    /\ UNCHANGED driver
    /\ tick' = ~tick
    /\ locals' = locals

\* _merge_nesting_conditionals, then EmptyNodeRemover
MergeNestingConditionals ==
    /\ pc = "merge_nesting_conditionals"
    /\ IF merge_nesting_conditionals_raises(tree)
       THEN Raise("ClaripyOperationError") /\ tree' = tree
       ELSE /\ tree' = EmptyNodeRemover(merge_nesting_conditionals(tree))
            /\ pc' = "remove_claripy_bool_asts"
            /\ err' = err
    /\ UNCHANGED <<region, parents, rcs, cmap, worklist, nextSid, loopst, result, inner, stack>>
    /\ UNCHANGED driver
    /\ tick' = ~tick
    /\ locals' = locals

RemoveClaripyBoolAsts ==
    /\ pc = "remove_claripy_bool_asts"
    /\ IF remove_claripy_bool_asts_raises(tree, cmap)
       THEN Raise("NotImplementedError") /\ result' = result
       ELSE /\ result' = remove_claripy_bool_asts(tree)
            /\ pc' = "done"
            /\ err' = err
    /\ UNCHANGED <<region, parents, rcs, cmap, tree, worklist, nextSid, loopst, inner, stack>>
    /\ UNCHANGED driver
    /\ tick' = ~tick
    /\ locals' = locals

FindLoopNodesAndSuccessors ==
    /\ pc = "find_loop"
    /\ \E f \in {find_loop_nodes_and_successors(region, parents.given, parents.levels)} :
           /\ loopst' = [loopst EXCEPT !.loop_nodes = f.loop_nodes, !.successors = f.successors]
           /\ pc' = IF Cardinality(f.successors) > 1 THEN "refine_successors" ELSE "assert"
    /\ UNCHANGED <<region, parents, rcs, cmap, tree, worklist, nextSid, result, inner, stack,
                   err>>
    /\ UNCHANGED driver
    /\ tick' = ~tick
    /\ locals' = locals

\* _refine_loop_successors, then _find_loop_nodes_and_successors again
RefineLoopSuccessors ==
    /\ pc = "refine_successors"
    /\ \E descending \in BOOLEAN :
       \E r \in {refine_loop_successors(region, loopst.successors, descending)} :
          /\ rcs' = r.conds
          /\ IF r.exc # ""
             THEN /\ Raise(r.exc)
                  /\ loopst' = [loopst EXCEPT !.descending = descending]
                  /\ UNCHANGED <<region, cmap>>
             ELSE \E f \in {find_loop_nodes_and_successors(r.region, parents.given,
                                                           parents.levels)} :
                  /\ region' = r.region
                  /\ cmap' = cmap \cup r.leaves
                  /\ loopst' = [loop_nodes |-> f.loop_nodes, successors |-> f.successors,
                                loop_node |-> NoneV, descending |-> descending]
                  /\ pc' = "assert"
                  /\ err' = err
    /\ UNCHANGED <<parents, tree, worklist, nextSid, result, inner, stack>>
    /\ UNCHANGED driver
    /\ tick' = ~tick
    /\ locals' = locals

\* assert len(successors) <= 1
AssertSuccessors ==
    /\ pc = "assert"
    /\ IF Cardinality(loopst.successors) > 1 THEN Raise("AssertionError")
       ELSE pc' = "make_endless_loop" /\ err' = err
    /\ UNCHANGED <<region, parents, rcs, cmap, tree, worklist, nextSid, loopst, result, inner,
                   stack>>
    /\ UNCHANGED driver
    /\ tick' = ~tick
    /\ locals' = locals

\* _make_endless_loop, _to_loop_body_sequence: the region of the loop body is
\* handed to a Structurer of its own, which gets a copy of the condition
\* mapping and no parent_map
MakeEndlessLoop ==
    /\ pc = "make_endless_loop"
    /\ \E b \in {loop_body_region(region, region.head, loopst.successors)} :
           IF b.exc # ""
           THEN /\ Raise(b.exc)
                /\ UNCHANGED <<region, parents, rcs, cmap, tree, worklist, nextSid, loopst,
                               result, inner, stack>>
           ELSE /\ stack' = Append(stack, [pc |-> "loop_body", region |-> region,
                                           parents |-> parents, rcs |-> rcs,
                                           cmap |-> cmap \cup b.leaves, tree |-> tree,
                                           worklist |-> worklist, nextSid |-> nextSid,
                                           loopst |-> loopst, result |-> result])
                /\ Construct(b.region, [given |-> FALSE, levels |-> <<>>], cmap \cup b.leaves)
                /\ UNCHANGED <<inner, err>>
    /\ UNCHANGED driver
    /\ tick' = ~tick
    /\ locals' = locals

\* structurer.result is read by the Structurer that waits for it
Return ==
    /\ pc = "done" /\ stack # <<>>
    /\ inner' = result
    /\ stack' = Front(stack)
    /\ pc' = Last(stack).pc
    /\ region' = Last(stack).region
    /\ parents' = Last(stack).parents
    /\ rcs' = Last(stack).rcs
    /\ cmap' = Last(stack).cmap
    /\ tree' = Last(stack).tree
    /\ worklist' = Last(stack).worklist
    /\ nextSid' = Last(stack).nextSid
    /\ loopst' = Last(stack).loopst
    /\ result' = Last(stack).result
    /\ err' = err
    /\ UNCHANGED driver
    /\ tick' = ~tick
    /\ locals' = locals

\* the end of _to_loop_body_sequence and of _make_endless_loop: the closing
\* goto of the body is removed and the body is put into an endless loop
LoopBodySequence ==
    /\ pc = "loop_body"
    /\ \E body \in {loop_body_of(inner, region.head)} :
           IF IsExc(body) THEN Raise(body.kind) /\ loopst' = loopst
           ELSE /\ loopst' = [loopst EXCEPT
                                 !.loop_node = LoopNode("while", NoneV, body, region.head)]
                /\ pc' = "refine_loop"
                /\ err' = err
    /\ UNCHANGED <<region, parents, rcs, cmap, tree, worklist, nextSid, result, inner, stack>>
    /\ UNCHANGED driver
    /\ tick' = ~tick
    /\ locals' = locals

RefineLoop ==
    /\ pc = "refine_loop"
    /\ \E l \in {refine_loop(loopst.loop_node)} :
           IF IsExc(l) THEN Raise(l.kind) /\ loopst' = loopst
           ELSE /\ loopst' = [loopst EXCEPT !.loop_node = l]
                /\ pc' = "finish_cyclic"
                /\ err' = err
    /\ UNCHANGED <<region, parents, rcs, cmap, tree, worklist, nextSid, result, inner, stack>>
    /\ UNCHANGED driver
    /\ tick' = ~tick
    /\ locals' = locals

\* the sequence of the loop and its successors, with the formulas converted
FinishCyclic ==
    /\ pc = "finish_cyclic"
    /\ \E r \in {finish_cyclic(region, loopst.loop_node,
                                InOrder(loopst.successors, loopst.descending), cmap)} :
           IF r.exc # "" THEN Raise(r.exc) /\ result' = result
           ELSE result' = r.result /\ pc' = "done" /\ err' = err
    /\ UNCHANGED <<region, parents, rcs, cmap, tree, worklist, nextSid, loopst, inner, stack>>
    /\ UNCHANGED driver
    /\ tick' = ~tick
    /\ locals' = locals

\* the region of one node that wraps an AST
WrapRegion(ast, addr) ==
    [head |-> addr,
     graph |-> [ns |-> <<addr>>, es |-> <<>>],
     gws |-> [ns |-> <<addr>>, es |-> <<>>],
     content |-> [a \in {addr} |-> ast],
     jump_tables |-> <<>>]

\* the result is structured once more, as the only node of a region
Restructure ==
    /\ pc = "done" /\ stack = <<>>
    /\ stack' = <<[pc |-> "restructured", region |-> region, parents |-> parents,
                   rcs |-> rcs, cmap |-> cmap, tree |-> tree, worklist |-> worklist,
                   nextSid |-> nextSid, loopst |-> loopst, result |-> result]>>
    /\ Construct(WrapRegion(result, region.head), [given |-> TRUE, levels |-> <<>>], {})
    /\ UNCHANGED <<inner, err>>
    /\ UNCHANGED driver
    /\ tick' = ~tick
    /\ locals' = locals

Next ==
    \/ Analyze
    \/ RecoverReachingConditions
    \/ MakeSequence
    \/ StructureSequence
    \/ RemoveConditionalJumps
    \/ MakeConditionNodes
    \/ MergeConditionalBreaks
    \/ MergeNestingConditionals
    \/ RemoveClaripyBoolAsts
    \/ FindLoopNodesAndSuccessors
    \/ RefineLoopSuccessors
    \/ AssertSuccessors
    \/ MakeEndlessLoop
    \/ Return
    \/ LoopBodySequence
    \/ RefineLoop
    \/ FinishCyclic
    \/ Restructure

Spec == Init /\ [][Next]_vars

----------------------------------------------------------------------------
\* The acyclic pipeline on regions that hold a switch: a header that compares
\* the switch variable with the bounds of a jump table, the block with the
\* indirect jump through the table, the case blocks and the block after them

MaxCases == 2          \* case blocks of a switch
MaxEntries == 3        \* entries of a jump table
MaxLowerBound == 2     \* the lower bound of the comparison of the header

HeaderAddr == 10 * 1
TableAddr == 10 * 2
CaseAddrs == {10 * (2 + i) : i \in 1..MaxCases}
DefaultAddr == 10 * (MaxCases + 3)

\* the header: "if (v - lb <= ub) goto A else goto B", or with the branches the
\* other way round; a lower bound 0 is not subtracted
SwitchHeader(lb, ub, swapped) ==
    Block(HeaderAddr,
          <<Assign(HeaderAddr + 1),
            CJ(HeaderAddr + 2,
               AilBin("CmpLE",
                      IF lb = 0 THEN AilVar(HeaderAddr)
                      ELSE AilBin("Sub", AilVar(HeaderAddr), AilConst(lb)),
                      AilConst(ub)),
               IF swapped THEN DefaultAddr ELSE TableAddr,
               IF swapped THEN TableAddr ELSE DefaultAddr)>>)

\* the region of a switch over the jump table entries; ends tells how each case
\* block ends: a goto to the block after the switch, or a return
SwitchRegionOf(lb, entries, ends, swapped) ==
    LET cases == SeqToSet(entries) \cap CaseAddrs
        order == SeqOfSet({HeaderAddr, TableAddr, DefaultAddr} \cup cases)
        targets == Dedup(entries)
        leaving == SelectSeq(SeqOfSet(cases), LAMBDA a : ends[a][1] = "Jump")
        g == [ns |-> order,
              es |-> <<<<HeaderAddr, TableAddr>>, <<HeaderAddr, DefaultAddr>>>>
                     \o [k \in 1..Len(targets) |-> <<TableAddr, targets[k]>>]
                     \o [k \in 1..Len(leaving) |-> <<leaving[k], DefaultAddr>>]]
    IN  [head |-> HeaderAddr,
         graph |-> g,
         gws |-> g,
         content |-> [a \in SeqToSet(order) |->
                         IF a = HeaderAddr THEN SwitchHeader(lb, Len(entries) - 1, swapped)
                         ELSE IF a = TableAddr
                         THEN Block(a, <<Assign(a + 1), IndirectJump(a + 2, AilVar(a))>>)
                         ELSE IF a = DefaultAddr THEN Block(a, <<Assign(a + 1)>>)
                         ELSE BlockOf(a, ends[a])],
         jump_tables |-> (TableAddr :> entries)]

SwitchRegions ==
    {SwitchRegionOf(lb, entries, ends, swapped) :
        lb \in 0..MaxLowerBound,
        entries \in UNION {[1..n -> CaseAddrs \cup {DefaultAddr}] : n \in 1..MaxEntries},
        ends \in [CaseAddrs -> {<<"Ret", 0, 0>>, <<"Jump", DefaultAddr, 0>>}],
        swapped \in BOOLEAN}

InitSwitch ==
    /\ region \in SwitchRegions
    /\ parents = [given |-> TRUE, levels |-> <<>>]
    /\ pc = "analyze"
    /\ rcs = <<>>
    /\ cmap = {}
    /\ tree = NoneV
    /\ worklist = <<>>
    /\ nextSid = 1
    /\ loopst = NoLoop
    /\ result = NoneV
    /\ inner = NoneV
    /\ stack = <<>>
    /\ err = ""
    /\ driver = DriverOff
    /\ tick = FALSE
    /\ locals = NoneV

NextSwitch ==
    \/ Analyze
    \/ RecoverReachingConditions
    \/ MakeSequence
    \/ StructureSequence
    \/ RemoveConditionalJumps
    \/ MakeConditionNodes
    \/ MergeConditionalBreaks
    \/ MergeNestingConditionals
    \/ RemoveClaripyBoolAsts

SpecSwitch == InitSwitch /\ [][NextSwitch]_vars

----------------------------------------------------------------------------
\* Loop regions with several ways out: a cycle of up to MaxLoopNodes blocks at
\* the head, each going on to the next and possibly leaving the cycle.  The
\* cycle leaves to one of up to MaxExitNodes further blocks of the region,
\* which return or jump to each other, or, when the region is the cycle
\* alone, to one of MaxOuter blocks outside the region.

MaxLoopNodes == 3
MaxExitNodes == 3
MaxOuter == 2

LoopAddrs(k) == {10 * i : i \in 1..k}
ExitAddrs(m) == {10 * (MaxLoopNodes + j) : j \in 1..m}
OuterAddrs == {10 * (MaxLoopNodes + MaxExitNodes + j) : j \in 1..MaxOuter}

\* how the i-th of k blocks of the cycle ends
LoopEnds(k, m, i) ==
    {<<"Jump", 10 * ((i % k) + 1), 0>>}
        \cup {<<"CJ", 10 * ((i % k) + 1), x>> :
                 x \in IF m = 0 THEN OuterAddrs ELSE ExitAddrs(m)}

\* how the block at a outside the cycle ends
ExitEnds(m, a) ==
    {<<"Ret", 0, 0>>}
        \cup {<<"CJ", p[1], p[2]>> :
                 p \in {q \in (ExitAddrs(m) \ {a}) \X (ExitAddrs(m) \ {a}) : q[1] # q[2]}}

\* the ends of the k blocks of the cycle, and of the m blocks outside it
LoopTerms(k, m) ==
    {t \in [LoopAddrs(k) -> UNION {LoopEnds(k, m, i) : i \in 1..k}] :
        \A i \in 1..k : t[10 * i] \in LoopEnds(k, m, i)}

ExitTerms(m) ==
    {t \in [ExitAddrs(m) -> UNION {ExitEnds(m, a) : a \in ExitAddrs(m)} \cup {<<"Ret", 0, 0>>}] :
        \A a \in ExitAddrs(m) : t[a] \in ExitEnds(m, a)}

LoopRegions ==
    {reg \in UNION {{RegionOf(lt @@ et, LoopAddrs(k) \cup ExitAddrs(m)) :
                        lt \in LoopTerms(k, m), et \in ExitTerms(m)} :
                    k \in 1..MaxLoopNodes, m \in 0..MaxExitNodes} :
        WellFormed(reg)}

InitLoop ==
    /\ region \in LoopRegions
    /\ parents = [given |-> TRUE, levels |-> ParentLevels(region)]
    /\ pc = "analyze"
    /\ rcs = <<>>
    /\ cmap = {}
    /\ tree = NoneV
    /\ worklist = <<>>
    /\ nextSid = 1
    /\ loopst = NoLoop
    /\ result = NoneV
    /\ inner = NoneV
    /\ stack = <<>>
    /\ err = ""
    /\ driver = DriverOff
    /\ tick = FALSE
    /\ locals = NoneV

SpecLoop == InitLoop /\ [][Next]_vars

----------------------------------------------------------------------------
\* Regions with an IL block that holds no statement: the block falls through
\* to another block or ends the region

EmptyEnds == {<<"Empty", t, 0>> : t \in BlockAddrs \cup ExtAddrs \cup {0}}

EmptyRegions ==
    {reg \in {RegionOf(terms, BlockAddrs \cap DOMAIN terms) :
                 terms \in {t \in UNION {[{10 * i : i \in 1..n} -> Terminators \cup EmptyEnds] :
                                            n \in 1..NumNodes} :
                               \E a \in DOMAIN t : t[a][1] = "Empty"}} :
        WellFormed(reg)}

InitEmpty ==
    /\ region \in EmptyRegions
    /\ parents = [given |-> TRUE, levels |-> ParentLevels(region)]
    /\ pc = "analyze"
    /\ rcs = <<>>
    /\ cmap = {}
    /\ tree = NoneV
    /\ worklist = <<>>
    /\ nextSid = 1
    /\ loopst = NoLoop
    /\ result = NoneV
    /\ inner = NoneV
    /\ stack = <<>>
    /\ err = ""
    /\ driver = DriverOff
    /\ tick = FALSE
    /\ locals = NoneV

SpecEmpty == InitEmpty /\ [][Next]_vars

----------------------------------------------------------------------------
\* Two runs of the Structurer on one region: the first run returns to a frame
\* that starts the second, which returns to a frame that holds the first
\* result.  The order in which a run walks a Python set is the run's choice.

MaxBody == 2           \* blocks a case of a switch branches to

BodyAddrs == {DefaultAddr + 10 * i : i \in 1..MaxBody}

\* a switch whose first case block ends in a conditional jump to two blocks of
\* its own, each a return or a goto to the block after the switch
BranchingSwitchRegionOf(lb, entries, ends, swapped) ==
    LET r == SwitchRegionOf(lb, entries, [a \in CaseAddrs |-> <<"Ret", 0, 0>>], swapped)
        entry == HeaderAddr + 20
        body == SeqOfSet(BodyAddrs)
        leaving == SelectSeq(body, LAMBDA a : ends[a][1] = "Jump")
        g == [ns |-> r.graph.ns \o body,
              es |-> r.graph.es
                     \o [k \in 1..Len(body) |-> <<entry, body[k]>>]
                     \o [k \in 1..Len(leaving) |-> <<leaving[k], DefaultAddr>>]]
    IN  [r EXCEPT !.graph = g,
                  !.gws = g,
                  !.content = [a \in DOMAIN r.content \cup BodyAddrs |->
                                  IF a = entry
                                  THEN BlockOf(a, <<"CJ", DefaultAddr + 10, DefaultAddr + 20>>)
                                  ELSE IF a \in BodyAddrs THEN BlockOf(a, ends[a])
                                  ELSE r.content[a]]]

BranchingSwitchRegions ==
    {BranchingSwitchRegionOf(lb, entries, ends, swapped) :
        lb \in 0..MaxLowerBound,
        entries \in {e \in UNION {[1..n -> CaseAddrs \cup {DefaultAddr}] : n \in 1..MaxCases} :
                        HeaderAddr + 20 \in SeqToSet(e)},
        ends \in [BodyAddrs -> {<<"Ret", 0, 0>>, <<"Jump", DefaultAddr, 0>>}],
        swapped \in BOOLEAN}

\* the loops all of whose exits leave the region
OpenLoopRegions ==
    {reg \in UNION {{RegionOf(lt, LoopAddrs(k)) : lt \in LoopTerms(k, 0)} :
                    k \in 1..MaxLoopNodes} :
        WellFormed(reg)}

TwiceRegions == BranchingSwitchRegions \cup OpenLoopRegions

\* the frame a run returns to
Frame(at) ==
    [pc |-> at, region |-> region, parents |-> parents, rcs |-> <<>>, cmap |-> {},
     tree |-> NoneV, worklist |-> <<>>, nextSid |-> 1, loopst |-> NoLoop, result |-> inner]

InitTwice ==
    /\ region \in TwiceRegions
    /\ parents = [given |-> TRUE, levels |-> ParentLevels(region)]
    /\ pc = "analyze"
    /\ rcs = <<>>
    /\ cmap = {}
    /\ tree = NoneV
    /\ worklist = <<>>
    /\ nextSid = 1
    /\ loopst = NoLoop
    /\ result = NoneV
    /\ inner = NoneV
    /\ stack = <<Frame("rerun")>>
    /\ err = ""
    /\ driver = DriverOff
    /\ tick = FALSE
    /\ locals = NoneV

\* the second Structurer(region, parent_map, condition_processor): the first
\* result is kept in the frame
Rerun ==
    /\ pc = "rerun"
    /\ stack' = <<Frame("compared")>>
    /\ Construct(region, parents, {})
    /\ UNCHANGED <<inner, err>>
    /\ UNCHANGED driver
    /\ tick' = ~tick
    /\ locals' = locals

NextTwice ==
    \/ Analyze
    \/ RecoverReachingConditions
    \/ MakeSequence
    \/ StructureSequence
    \/ RemoveConditionalJumps
    \/ MakeConditionNodes
    \/ MergeConditionalBreaks
    \/ MergeNestingConditionals
    \/ RemoveClaripyBoolAsts
    \/ FindLoopNodesAndSuccessors
    \/ RefineLoopSuccessors
    \/ AssertSuccessors
    \/ MakeEndlessLoop
    \/ Return
    \/ LoopBodySequence
    \/ RefineLoop
    \/ FinishCyclic
    \/ Rerun

SpecTwice == InitTwice /\ [][NextTwice]_vars

----------------------------------------------------------------------------
\* Switches with a block after them: a case block ends in a return, in a goto
\* to node B, or in a goto to the block after the switch, which node B falls
\* through to

SwitchEndAddr == DefaultAddr + 10

CaseEnds == {<<"Ret", 0, 0>>, <<"Jump", DefaultAddr, 0>>, <<"Jump", SwitchEndAddr, 0>>}

EndedSwitchRegionOf(entries, ends) ==
    LET r == SwitchRegionOf(0, entries, ends, FALSE)
        cases == SeqOfSet(SeqToSet(entries) \cap CaseAddrs)
        targets == Dedup(entries)
        leaving == SelectSeq(cases, LAMBDA a : ends[a][1] = "Jump")
        g == [ns |-> r.graph.ns \o <<SwitchEndAddr>>,
              es |-> <<<<HeaderAddr, TableAddr>>, <<HeaderAddr, DefaultAddr>>>>
                     \o [k \in 1..Len(targets) |-> <<TableAddr, targets[k]>>]
                     \o [k \in 1..Len(leaving) |-> <<leaving[k], ends[leaving[k]][2]>>]
                     \o <<<<DefaultAddr, SwitchEndAddr>>>>]
    IN  [r EXCEPT !.graph = g,
                  !.gws = g,
                  !.content = [a \in DOMAIN r.content \cup {SwitchEndAddr} |->
                                  IF a = SwitchEndAddr THEN Block(a, <<Assign(a + 1)>>)
                                  ELSE r.content[a]]]

EndedSwitchRegions ==
    {EndedSwitchRegionOf(entries, ends) :
        entries \in UNION {[1..n -> CaseAddrs \cup {DefaultAddr}] : n \in 1..MaxEntries},
        ends \in [CaseAddrs -> CaseEnds]}

InitEndedSwitch ==
    /\ region \in EndedSwitchRegions
    /\ parents = [given |-> TRUE, levels |-> ParentLevels(region)]
    /\ pc = "analyze"
    /\ rcs = <<>>
    /\ cmap = {}
    /\ tree = NoneV
    /\ worklist = <<>>
    /\ nextSid = 1
    /\ loopst = NoLoop
    /\ result = NoneV
    /\ inner = NoneV
    /\ stack = <<>>
    /\ err = ""
    /\ driver = DriverOff
    /\ tick = FALSE
    /\ locals = NoneV

SpecEndedSwitch == InitEndedSwitch /\ [][NextSwitch]_vars

----------------------------------------------------------------------------
\* Loops with one way out: a cycle of one or two blocks, each ending in a jump
\* to the next or in a conditional jump that leaves the cycle on either edge,
\* some blocks holding nothing but their jump; and, possibly, a
\* block after the cycle that ends in a return or in a jump out of the region

MaxCycle == 2          \* blocks of the cycle

TailAddr == 10 * (MaxCycle + 1)

\* how the i-th of k blocks of the cycle ends; outs are the places to leave to
CycleEnds(k, i, outs) ==
    {<<kind, 10 * ((i % k) + 1), 0>> : kind \in {"Jump", "Goto"}}
        \cup {<<kind, 10 * ((i % k) + 1), x>> : kind \in {"CJ", "Test"}, x \in outs}
        \cup {<<kind, x, 10 * ((i % k) + 1)>> : kind \in {"CJ", "Test"}, x \in outs}

CycleTerms(k, outs) ==
    {t \in [LoopAddrs(k) -> UNION {CycleEnds(k, i, outs) : i \in 1..k}] :
        \A i \in 1..k : t[10 * i] \in CycleEnds(k, i, outs)}

TailTerms ==
    {(TailAddr :> e) :
        e \in {<<"Ret", 0, 0>>} \cup {<<kind, x, 0>> : kind \in {"Jump", "Goto"}, x \in OuterAddrs}}

WhileRegions ==
    {reg \in UNION {{RegionOf(t, LoopAddrs(k)) : t \in CycleTerms(k, OuterAddrs)}
                        \cup {RegionOf(t @@ tail, LoopAddrs(k) \cup {TailAddr}) :
                                 t \in CycleTerms(k, {TailAddr, Head(SeqOfSet(OuterAddrs))}),
                                 tail \in TailTerms} :
                    k \in 1..MaxCycle} :
        WellFormed(reg)}

InitWhile ==
    /\ region \in WhileRegions
    /\ parents = [given |-> TRUE, levels |-> ParentLevels(region)]
    /\ pc = "analyze"
    /\ rcs = <<>>
    /\ cmap = {}
    /\ tree = NoneV
    /\ worklist = <<>>
    /\ nextSid = 1
    /\ loopst = NoLoop
    /\ result = NoneV
    /\ inner = NoneV
    /\ stack = <<>>
    /\ err = ""
    /\ driver = DriverOff
    /\ tick = FALSE
    /\ locals = NoneV

SpecWhile == InitWhile /\ [][Next]_vars

----------------------------------------------------------------------------
\* _make_ites on its own: the sequences it is handed are sequences of Code
\* nodes that _merge_same_conditioned_nodes and
\* _structure_common_subexpression_conditions leave as they are; every pass of
\* its while loop is a step

MaxSeq == 4            \* nodes of a sequence handed to _make_ites

CondP == ClVar(AilVar(1))
CondQ == ClVar(AilVar(2))

SeqConds ==
    {NoneV, ClTrue, CondP, ClNot(CondP), CondQ, ClNot(CondQ), ClAnd(<<CondP, CondQ>>),
     ClOr(<<ClNot(CondP), ClNot(CondQ)>>)}

CodeNodes(conds) ==
    [k \in 1..Len(conds) |-> CodeNode(Block(10 * k, <<Assign(10 * k + 1)>>), conds[k])]

IteSequences ==
    {nodes \in {CodeNodes(conds) : conds \in UNION {[1..n -> SeqConds] : n \in 2..MaxSeq}} :
        /\ merge_same_conditioned_nodes(nodes) = nodes
        /\ structure_common_subexpression_conditions(nodes, 1).nodes = nodes}

InitItes ==
    /\ tree \in {[type |-> "Seq", sid |-> 0, nodes |-> nodes] : nodes \in IteSequences}
    /\ region = RegionOf([a \in {10} |-> <<"Ret", 0, 0>>], {10})
    /\ parents = [given |-> FALSE, levels |-> <<>>]
    /\ pc = "make_ites"
    /\ rcs = <<>>
    /\ cmap = {}
    /\ worklist = <<>>
    /\ nextSid = 1
    /\ loopst = NoLoop
    /\ result = NoneV
    /\ inner = NoneV
    /\ stack = <<>>
    /\ err = ""
    /\ driver = DriverOff
    /\ tick = FALSE
    /\ locals = NoneV

\* a pass of the while loop that finds a pair: _make_ite
MakeIte ==
    /\ pc = "make_ites" /\ ItePairs(tree.nodes) # {}
    /\ \E r \in {make_ite([nodes |-> tree.nodes, new |-> worklist, next |-> nextSid],
                           FirstItePair(tree.nodes)[1], FirstItePair(tree.nodes)[2])} :
           /\ tree' = [tree EXCEPT !.nodes = r.nodes]
           /\ worklist' = r.new
           /\ nextSid' = r.next
    /\ UNCHANGED <<pc, region, parents, rcs, cmap, loopst, result, inner, stack, err>>
    /\ UNCHANGED driver
    /\ tick' = ~tick
    /\ locals' = locals

\* the pass that finds no pair ends the loop
MakeItesDone ==
    /\ pc = "make_ites" /\ ItePairs(tree.nodes) = {}
    /\ pc' = "ites_done"
    /\ UNCHANGED <<region, parents, rcs, cmap, tree, worklist, nextSid, loopst, result, inner,
                   stack, err>>
    /\ UNCHANGED driver
    /\ tick' = ~tick
    /\ locals' = locals

NextItes ==
    \/ MakeIte
    \/ MakeItesDone

SpecItes == InitItes /\ [][NextItes]_vars

----------------------------------------------------------------------------
\* Loops whose body branches: the head 10 goes on to a chain of one to three
\* blocks or straight to the join, the last block of the cycle, which jumps
\* back to the head.  A block of the chain holds nothing but a conditional
\* jump that leaves the loop on one edge, or branches to the join, or jumps on

MaxGuarded == 3        \* blocks of the chain

JoinAddr == 10 * (MaxGuarded + 2)
LeaveAddrs == {JoinAddr + 10 * j : j \in 1..MaxOuter}

\* how a block of the chain ends that goes on to the block at next
GuardedEnds(next) ==
    {<<"Test", x, next>> : x \in LeaveAddrs} \cup {<<"Test", next, x>> : x \in LeaveAddrs}
        \cup (IF next = JoinAddr THEN {<<"Goto", next, 0>>}
              ELSE {<<"Jump", next, 0>>, <<"CJ", next, JoinAddr>>})

\* how the join ends
JoinEnds == {<<"Goto", 10, 0>>} \cup {<<"Test", x, 10>> : x \in LeaveAddrs}

\* the blocks of the chain of n blocks
ChainAddrs(n) == {10 * (i + 1) : i \in 1..n}

GuardedTerms(n) ==
    {(10 :> <<"CJ", 20, JoinAddr>>) @@ chain @@ (JoinAddr :> e) :
        chain \in {t \in [ChainAddrs(n) -> UNION {GuardedEnds(a) : a \in ChainAddrs(n) \cup {JoinAddr}}] :
                      \A a \in ChainAddrs(n) :
                          t[a] \in GuardedEnds(IF a = 10 * (n + 1) THEN JoinAddr ELSE a + 10)},
        e \in JoinEnds}

GuardedRegions ==
    UNION {{RegionOf(t, DOMAIN t) : t \in GuardedTerms(n)} : n \in 1..MaxGuarded}

InitGuarded ==
    /\ region \in GuardedRegions
    /\ parents = [given |-> TRUE, levels |-> ParentLevels(region)]
    /\ pc = "analyze"
    /\ rcs = <<>>
    /\ cmap = {}
    /\ tree = NoneV
    /\ worklist = <<>>
    /\ nextSid = 1
    /\ loopst = NoLoop
    /\ result = NoneV
    /\ inner = NoneV
    /\ stack = <<>>
    /\ err = ""
    /\ driver = DriverOff
    /\ tick = FALSE
    /\ locals = NoneV

SpecGuarded == InitGuarded /\ [][Next]_vars

----------------------------------------------------------------------------
\* Acyclic regions that fork at the head: 10 branches to 20 and 30, 20 and 40
\* may branch again, and the paths may meet in the last block or leave the
\* region

MaxFork == 5           \* blocks of a forking region

ForkOut == 10 * (MaxFork + 1)

\* how the block at a ends
ForkEnds(a) ==
    CASE a = 10 -> {<<"CJ", 20, 30>>}
      [] a = 20 -> {<<"CJ", 40, 10 * MaxFork>>, <<"CJ", 40, ForkOut>>, <<"CJ", 40, 30>>,
                    <<"Jump", 40, 0>>, <<"Ret", 0, 0>>}
      [] a = 10 * MaxFork -> {<<"Ret", 0, 0>>}
      [] OTHER -> {<<"Ret", 0, 0>>, <<"Jump", 10 * MaxFork, 0>>,
                   <<"CJ", 10 * MaxFork, ForkOut>>}

ForkAddrs == {10 * i : i \in 1..MaxFork}

\* the blocks that terms reaches from the head
ForkReached(terms) == ReachFrom(RegionOf(terms, ForkAddrs).graph, {10}, {})

ForkRegions ==
    {RegionOf([a \in ForkReached(terms) |-> terms[a]], ForkReached(terms)) :
        terms \in {t \in [ForkAddrs -> UNION {ForkEnds(a) : a \in ForkAddrs}] :
                      \A a \in ForkAddrs : t[a] \in ForkEnds(a)}}

InitFork ==
    /\ region \in ForkRegions
    /\ parents = [given |-> TRUE, levels |-> ParentLevels(region)]
    /\ pc = "analyze"
    /\ rcs = <<>>
    /\ cmap = {}
    /\ tree = NoneV
    /\ worklist = <<>>
    /\ nextSid = 1
    /\ loopst = NoLoop
    /\ result = NoneV
    /\ inner = NoneV
    /\ stack = <<>>
    /\ err = ""
    /\ driver = DriverOff
    /\ tick = FALSE
    /\ locals = NoneV

SpecFork == InitFork /\ [][NextSwitch]_vars

----------------------------------------------------------------------------
\* _switch_unpack_sequence_node on its own, as _make_switch_cases calls it: the
\* sequence holds the header, node A and possibly one more block; node A is a
\* sequence that was structured before, the block of the indirect jump
\* followed by blocks and Condition nodes

MaxKids == 2           \* nodes of node A after the block of the indirect jump

KidAddrs == {TableAddr + 10 * i : i \in 1..MaxKids}

\* what may stand at address a in node A: a block, or a Condition with a true
\* branch, a false branch or both
KidsAt(a) ==
    {Block(a, <<Assign(a + 1)>>),
     ConditionNode(a, NoneV, AilVar(a), Block(a, <<Assign(a + 1)>>), NoneV),
     ConditionNode(a, NoneV, AilVar(a), NoneV, Block(a, <<Assign(a + 1)>>)),
     ConditionNode(a, NoneV, AilVar(a), Block(a, <<Assign(a + 1)>>),
                   Block(a + 5, <<Assign(a + 6)>>))}

NodesA ==
    {CodeNode(SequenceNode(<<Block(TableAddr, <<Assign(TableAddr + 1),
                                                 IndirectJump(TableAddr + 2,
                                                              AilVar(TableAddr))>>)>> \o kids),
              ClTrue) :
        kids \in UNION {{k \in [1..n -> UNION {KidsAt(a) : a \in KidAddrs}] :
                            \A i \in 1..n : k[i] \in KidsAt(TableAddr + 10 * i)} :
                        n \in 1..MaxKids}}

\* the sequences _make_switch_cases works on
UnpackSequences ==
    {<<CodeNode(Block(HeaderAddr, <<Assign(HeaderAddr + 1)>>), ClTrue), node_a>> \o more :
        node_a \in NodesA,
        more \in {<<>>, <<CodeNode(Block(TableAddr + 10 * (MaxKids + 1),
                                         <<Assign(TableAddr + 10 * (MaxKids + 1) + 1)>>),
                                   ClTrue)>>}}

\* the entries of the jump table
UnpackEntries ==
    UNION {[1..n -> KidAddrs \cup {TableAddr + 10 * (MaxKids + 1)}] : n \in 1..MaxEntries - 1}

InitUnpack ==
    /\ tree \in {[type |-> "Seq", sid |-> 0, nodes |-> nodes] : nodes \in UnpackSequences}
    /\ locals \in {[addr2nodes |-> Addr2Nodes(tree.nodes), node_a |-> tree.nodes[2],
                     jumptable_entries |-> entries, r |-> NoneV] :
                       entries \in UnpackEntries}
    /\ region = RegionOf([a \in {10} |-> <<"Ret", 0, 0>>], {10})
    /\ parents = [given |-> FALSE, levels |-> <<>>]
    /\ pc = "switch_unpack_sequence_node"
    /\ rcs = <<>>
    /\ cmap = {}
    /\ worklist = <<>>
    /\ nextSid = 1
    /\ loopst = NoLoop
    /\ result = NoneV
    /\ inner = NoneV
    /\ stack = <<>>
    /\ err = ""
    /\ driver = DriverOff
    /\ tick = FALSE

\* r, node_a = self._switch_unpack_sequence_node(seq, node_a, entries,
\* addr2nodes); if not r: continue
SwitchUnpackSequenceNode ==
    /\ pc = "switch_unpack_sequence_node"
    /\ \E u \in {switch_unpack_sequence_node(
                      [nodes |-> tree.nodes, a2n |-> locals.addr2nodes, new |-> worklist,
                       next |-> nextSid],
                      locals.node_a, locals.jumptable_entries)} :
           /\ tree' = [tree EXCEPT !.nodes = u.st.nodes]
           /\ locals' = [locals EXCEPT !.addr2nodes = u.st.a2n, !.node_a = u.node_a,
                                        !.r = u.ok]
           /\ pc' = IF u.ok THEN "switch_build_cases" ELSE "continue"
    /\ UNCHANGED <<region, parents, rcs, cmap, worklist, nextSid, loopst, result, inner,
                   stack, err, driver>>
    /\ tick' = ~tick

NextUnpack == SwitchUnpackSequenceNode

SpecUnpack == InitUnpack /\ [][NextUnpack]_vars

----------------------------------------------------------------------------
\* _structure_sequence step by step on the first sequence of a forking
\* region: the region has no jump table, so _make_switch_cases leaves the
\* sequence as it is, and the sequence starts with its conditional jumps and
\* empty nodes removed. Every pass of the loop of
\* _structure_common_subexpression_conditions and of _make_ites is a step.

SequenceRegions ==
    {reg \in ForkRegions :
        /\ is_directed_acyclic_graph(reg.graph)
        /\ recover_exception(reg.graph, reg.content) = ""}

FirstSequence(reg) ==
    LET made == make_sequence(reg.graph, reg.content,
                              recover_reaching_conditions(reg.graph, reg.head, reg.content))
    IN  [made EXCEPT !.nodes = EmptyNodeRemover(remove_conditional_jumps(made, FALSE)).nodes]

InitSequence ==
    /\ region \in SequenceRegions
    /\ parents = [given |-> TRUE, levels |-> ParentLevels(region)]
    /\ pc = "merge_same_conditioned_nodes"
    /\ rcs = recover_reaching_conditions(region.graph, region.head, region.content)
    /\ cmap = recover_leaves(region.graph, region.content)
    /\ tree = FirstSequence(region)
    /\ worklist = <<>>
    /\ nextSid = 2
    /\ loopst = NoLoop
    /\ result = NoneV
    /\ inner = NoneV
    /\ stack = <<>>
    /\ err = ""
    /\ driver = DriverOff
    /\ tick = FALSE
    /\ locals = NoneV

MergeSameConditionedNodes ==
    /\ pc = "merge_same_conditioned_nodes"
    /\ tree' = [tree EXCEPT !.nodes = merge_same_conditioned_nodes(tree.nodes)]
    /\ pc' = "structure_common_subexpression_conditions"
    /\ locals' = [i |-> 1]
    /\ UNCHANGED <<region, parents, rcs, cmap, worklist, nextSid, loopst, result, inner,
                   stack, err>>
    /\ UNCHANGED driver
    /\ tick' = ~tick

\* a pass of the while loop of _structure_common_subexpression_conditions
CommonSubexpressionPass ==
    /\ pc = "structure_common_subexpression_conditions"
    /\ locals.i < Len(tree.nodes)
    /\ \E r \in {common_subexpression_pass([nodes |-> tree.nodes, i |-> locals.i,
                                            new |-> worklist, next |-> nextSid])} :
           /\ tree' = [tree EXCEPT !.nodes = r.nodes]
           /\ worklist' = r.new
           /\ nextSid' = r.next
           /\ locals' = [i |-> r.i]
    /\ UNCHANGED <<pc, region, parents, rcs, cmap, loopst, result, inner, stack, err>>
    /\ UNCHANGED driver
    /\ tick' = ~tick

\* the loop ends
CommonSubexpressionDone ==
    /\ pc = "structure_common_subexpression_conditions"
    /\ locals.i >= Len(tree.nodes)
    /\ pc' = "make_ites"
    /\ UNCHANGED <<region, parents, rcs, cmap, tree, worklist, nextSid, loopst, result, inner,
                   stack, err>>
    /\ UNCHANGED driver
    /\ tick' = ~tick
    /\ locals' = locals

NextSequence ==
    \/ MergeSameConditionedNodes
    \/ CommonSubexpressionPass
    \/ CommonSubexpressionDone
    \/ MakeIte
    \/ MakeItesDone

SpecSequence == InitSequence /\ [][NextSequence]_vars

----------------------------------------------------------------------------
\* The acyclic pipeline as a running method: _analyze_acyclic is one thread of
\* control, so a pipeline that has neither returned nor raised takes its next
\* step. The regions are the forking regions and the regions with a switch.

InitWorklist == InitFork \/ InitSwitch

\* the pipeline has neither returned nor raised
Analyzing == pc \notin {"done", "failed"}

\* the interpreter executes the next step of the pipeline
Proceed == Analyzing /\ tick' = ~tick

SpecWorklist == InitWorklist /\ [][NextSwitch]_vars /\ WF_tick(Proceed)

----------------------------------------------------------------------------
\* RecursiveStructurer: the region tree.  A region nested in a graph is a node
\* of that graph; a region of the tree is named by its path, the addresses of
\* the region nodes from the root down to it.

GraphRegion(a, reg) == [type |-> "Region", addr |-> a, region |-> reg]

\* where a node of a region graph goes on: a nested region to its successors,
\* a block to the targets of its last statement
NodeTargets(n) ==
    IF n.type = "Region"
    THEN SelectSeq(n.region.gws.ns, LAMBDA a : ~HasNode(n.region.graph, a))
    ELSE IF n.statements = <<>> THEN <<>>
    ELSE extract_jump_targets(Last(n.statements))

\* the region of the nodes given by address: graph holds the edges between
\* them, graph_with_successors also those that leave the region
RegionWith(head, nodes) ==
    LET order == SeqOfSet(DOMAIN nodes)
        edges == Flatten([i \in 1..Len(order) |->
                     [k \in 1..Len(NodeTargets(nodes[order[i]])) |->
                         <<order[i], NodeTargets(nodes[order[i]])[k]>>]])
        exts == SeqOfSet({e[2] : e \in SeqToSet(edges)} \ DOMAIN nodes)
    IN  [head |-> head,
         graph |-> [ns |-> order, es |-> SelectSeq(edges, LAMBDA e : e[2] \in DOMAIN nodes)],
         gws |-> [ns |-> order \o exts, es |-> edges],
         content |-> [a \in DOMAIN nodes \cup SeqToSet(exts) |->
                         IF a \in DOMAIN nodes THEN nodes[a]
                         ELSE Block(a, <<Assign(a + 1)>>)],
         jump_tables |-> <<>>]

RECURSIVE RegionAt(_, _)
\* the region at a path below the region root
RegionAt(root, path) ==
    IF path = <<>> THEN root
    ELSE RegionAt(root.content[Head(path)].region, Tail(path))

RECURSIVE ReplaceAt(_, _, _)
\* GraphRegion.replace_region, on the parent of the region at the path: the
\* region node is replaced by node in the graphs of the parent
ReplaceAt(root, path, node) ==
    IF Len(path) = 1 THEN [root EXCEPT !.content[path[1]] = node]
    ELSE [root EXCEPT !.content[Head(path)].region = ReplaceAt(@, Tail(path), node)]

RECURSIVE DfsVisit(_, _, _, _)
\* depth-first search from the nodes kids on: [order, seen], order being the
\* nodes in the order they are left
DfsVisit(g, kids, seen, order) ==
    IF kids = <<>> THEN [order |-> order, seen |-> seen]
    ELSE IF Head(kids) \in seen THEN DfsVisit(g, Tail(kids), seen, order)
    ELSE LET below == DfsVisit(g, Successors(g, Head(kids)), seen \cup {Head(kids)}, order)
         IN  DfsVisit(g, Tail(kids), below.seen, Append(below.order, Head(kids)))

\* networkx.dfs_postorder_nodes
dfs_postorder_nodes(g, source) == DfsVisit(g, <<source>>, {}, <<>>).order

\* no node taken for a region
NoRegions(reg) == <<>>

\* the nodes of the graph of reg that are regions, in DFS post-order from the head
NestedRegions(reg) ==
    SelectSeq(dfs_postorder_nodes(reg.graph, reg.head),
              LAMBDA a : reg.content[a].type = "Region")

RECURSIVE AncestorLevels(_, _, _)
\* what Case B of _find_loop_nodes_and_successors reads through parent_map, from
\* the region at path upwards: the successors of the region in the graph of
\* its parent, then those of the parent in the graph of its own parent, ..
AncestorLevels(root, parent_map, path) ==
    IF path \notin DOMAIN parent_map THEN <<>>
    ELSE LET parent == parent_map[path]
             here == Dedup(SelectSeq(Successors(RegionAt(root, parent).graph, Last(path)),
                                     LAMBDA a : a # Last(path)))
         IN  (IF here = <<>> THEN <<>> ELSE <<here>>)
                 \o AncestorLevels(root, parent_map, parent)

\* The region trees the driver is run on.  A region has three nodes, at the
\* addresses h, h + step and h + 2 * step, and at most one successor e (0: none)
NodeAddrs(h, step) == {h, h + step, h + 2 * step}

\* how the last block of a region ends: it goes on to the successor of the
\* region, or it returns
Out(e) == IF e = 0 THEN <<"Ret", 0, 0>> ELSE <<"Jump", e, 0>>

\* the shapes of a region: straight-line code, an if, a loop tested at its
\* head, a loop tested at its end, a node with two ways into a loop
DriverKinds == {"seq", "if", "while", "dowhile", "two"}

KindTerms(kind, h, step, e) ==
    LET s == h + step
        t == h + 2 * step
    IN  [a \in NodeAddrs(h, step) |->
            IF a = t THEN Out(e)
            ELSE CASE kind = "seq" -> <<"Jump", a + step, 0>>
                   [] kind = "if" -> IF a = h THEN <<"CJ", s, t>> ELSE <<"Jump", t, 0>>
                   [] kind = "while" -> IF a = h THEN <<"CJ", s, t>> ELSE <<"Jump", h, 0>>
                   [] kind = "dowhile" -> IF a = h THEN <<"Jump", s, 0>> ELSE <<"CJ", h, t>>
                   [] kind = "two" -> <<"CJ", s, t>>]

\* the successor of a region nested at address a of a region of that shape:
\* where the block at a would go first
ExitOf(kind, h, step, e, a) ==
    LET ts == SelectSeq(TargetsOf(KindTerms(kind, h, step, e)[a]), LAMBDA x : x # a)
    IN  IF ts = <<>> THEN 0 ELSE ts[1]

\* the region of that shape; subs gives the regions nested in it, by address
DriverRegion(kind, h, step, e, subs) ==
    RegionWith(h, [a \in NodeAddrs(h, step) |->
                      IF a \in DOMAIN subs THEN GraphRegion(a, subs[a])
                      ELSE BlockOf(a, KindTerms(kind, h, step, e)[a])])

\* regions of blocks
LeafRegions(h, step, e) == {DriverRegion(kind, h, step, e, <<>>) : kind \in DriverKinds}

\* regions that hold at most one region of blocks, at their head or after it
ChildRegions(h, step, e) ==
    LeafRegions(h, step, e) \cup
    {reg \in UNION {{DriverRegion(kind, h, step, e, a :> g) :
                        g \in LeafRegions(a, step \div 3, ExitOf(kind, h, step, e, a))} :
                    kind \in DriverKinds, a \in {h, h + step}} :
        WellFormed(reg)}

\* the root regions: one nested region with what it holds, or two nested
\* regions of blocks side by side
RootRegions(h, step) ==
    {reg \in UNION {{DriverRegion(kind, h, step, 0, a :> c) :
                        c \in ChildRegions(a, step \div 3, ExitOf(kind, h, step, 0, a))}
                    \cup
                    {DriverRegion(kind, h, step, 0, (h :> c1) @@ (h + step :> c2)) :
                        c1 \in LeafRegions(h, step \div 3, ExitOf(kind, h, step, 0, h)),
                        c2 \in LeafRegions(h + step, step \div 3,
                                           ExitOf(kind, h, step, 0, h + step))} :
                    kind \in {"seq", "while"}, a \in {h, h + step}} :
        WellFormed(reg)}

RECURSIVE RegionPaths(_)
\* the paths of the regions of the tree below reg, reg itself (<<>>) included
RegionPaths(reg) ==
    {<<>>} \cup UNION {{<<a>> \o p : p \in RegionPaths(reg.content[a].region)} :
                       a \in {x \in SeqToSet(reg.graph.ns) : reg.content[x].type = "Region"}}

----------------------------------------------------------------------------
\* RecursiveStructurer._analyze, step by step

InitDriver ==
    /\ \E r \in RootRegions(90, 90) :
          driver = [pc |-> "loop", input |-> r, root |-> r, stack |-> << <<>> >>,
                    parent_map |-> <<>>, current |-> <<>>, structured |-> <<>>,
                    result |-> NoneV]
    /\ region = NoneV
    /\ parents = [given |-> FALSE, levels |-> <<>>]
    /\ pc = "idle"
    /\ rcs = <<>>
    /\ cmap = {}
    /\ tree = NoneV
    /\ worklist = <<>>
    /\ nextSid = 1
    /\ loopst = NoLoop
    /\ result = NoneV
    /\ inner = NoneV
    /\ stack = <<>>
    /\ err = ""
    /\ tick = FALSE
    /\ locals = NoneV

\* the region on top of the stack still holds regions: they are pushed, in DFS
\* post-order, and the region is recorded as their parent
DriverPush ==
    /\ driver.pc = "loop" /\ driver.stack # <<>>
    /\ \E current \in {Last(driver.stack)} :
       \E nested \in {NestedRegions(RegionAt(driver.root, current))} :
          /\ nested # <<>>
          /\ driver' = [driver EXCEPT
                 !.stack = @ \o [i \in 1..Len(nested) |-> Append(current, nested[i])],
                 !.parent_map =
                     [p \in DOMAIN @ \cup {Append(current, nested[i]) : i \in 1..Len(nested)} |->
                         IF p \in DOMAIN @ THEN @[p] ELSE current]]
    /\ UNCHANGED <<pc, region, parents, rcs, cmap, tree, worklist, nextSid, loopst, result,
                   inner, stack, err>>
    /\ tick' = ~tick
    /\ locals' = locals

\* the region on top of the stack holds no region: it is popped and a Structurer
\* is made for it
DriverStructure ==
    /\ driver.pc = "loop" /\ driver.stack # <<>>
    /\ \E current \in {Last(driver.stack)} :
       \E reg \in {RegionAt(driver.root, current)} :
          /\ NestedRegions(reg) = <<>>
          /\ driver' = [driver EXCEPT !.stack = Front(@), !.pc = "structuring",
                                      !.current = current,
                                      !.structured = Append(@, current)]
          /\ Construct(reg,
                       [given |-> TRUE,
                        levels |-> AncestorLevels(driver.root, driver.parent_map, current)],
                       {})
    /\ UNCHANGED <<inner, stack, err>>
    /\ tick' = ~tick
    /\ locals' = locals

\* the Structurer has returned: the result of the top-level region is the
\* result of the driver; any other region is replaced by its result in its parent
DriverReturn ==
    /\ driver.pc = "structuring" /\ pc = "done" /\ stack = <<>>
    /\ driver' = IF driver.current \notin DOMAIN driver.parent_map
                 THEN [driver EXCEPT !.pc = "done", !.result = result]
                 ELSE [driver EXCEPT !.root = ReplaceAt(@, driver.current, result),
                                     !.pc = IF driver.stack = <<>> THEN "done" ELSE "loop"]
    /\ UNCHANGED <<pc, region, parents, rcs, cmap, tree, worklist, nextSid, loopst, result,
                   inner, stack, err>>
    /\ tick' = ~tick
    /\ locals' = locals

NextDriver ==
    \/ DriverPush
    \/ DriverStructure
    \/ DriverReturn
    \/ Analyze
    \/ RecoverReachingConditions
    \/ MakeSequence
    \/ StructureSequence
    \/ RemoveConditionalJumps
    \/ MakeConditionNodes
    \/ MergeConditionalBreaks
    \/ MergeNestingConditionals
    \/ RemoveClaripyBoolAsts
    \/ FindLoopNodesAndSuccessors
    \/ RefineLoopSuccessors
    \/ AssertSuccessors
    \/ MakeEndlessLoop
    \/ Return
    \/ LoopBodySequence
    \/ RefineLoop
    \/ FinishCyclic

\* the driver is one thread of control: it goes on as long as it can
\* the driver runs until it has returned or a Structurer has raised
Running == driver.pc \in {"loop", "structuring"} /\ pc # "failed"

\* the interpreter executes the next step of a running analysis
Step == Running /\ tick' = ~tick

\* the interpreter does not stop while the analysis runs
SpecDriver == InitDriver /\ [][NextDriver]_vars /\ WF_tick(Step)

----------------------------------------------------------------------------
\* What the results are checked against

RECURSIVE AstNodes(_)
\* the nodes of the AST below n, n included
AstNodes(n) ==
    CASE n.type = "None" -> {}
      [] n.type = "Seq" -> {n} \cup UNION {AstNodes(n.nodes[i]) : i \in 1..Len(n.nodes)}
      [] n.type = "Code" -> {n} \cup AstNodes(n.node)
      [] n.type = "Cond" -> {n} \cup AstNodes(n.true) \cup AstNodes(n.false)
      [] n.type = "Loop" -> {n} \cup AstNodes(n.body)
      [] n.type = "Switch" ->
            {n} \cup UNION {AstNodes(n.cases[k]) : k \in DOMAIN n.cases}
                \cup AstNodes(n.default)
      [] OTHER -> {n}

\* the statements of the IL blocks below n
Statements(n) ==
    UNION {SeqToSet(b.statements) : b \in {x \in AstNodes(n) : x.type = "Block"}}

\* a Structurer has set its result
Returned == pc = "done"

\* the head of the region lies on a cycle of the region graph
HeadInCycle(reg) ==
    \E s \in SeqToSet(Successors(reg.graph, reg.head)) : Reaches(reg.graph, s, reg.head)

\* C1: the AST a Structurer returns, from the acyclic or from the cyclic
\* pipeline, holds no ConditionalJump statement in any of its IL blocks, the
\* blocks of the loop successors appended after the Loop node included.
C1_NoConditionalJump ==
    Returned => \A stmt \in Statements(result) : stmt.k # "CJ"

\* the conditions a node carries
Conditions(n) ==
    CASE n.type = "Code" -> {n.rc}
      [] n.type = "Cond" -> {n.rc, n.cond}
      [] n.type = "CBreak" -> {n.cond}
      [] n.type = "Loop" -> {n.cond}
      [] n.type = "Switch" -> {n.expr}
      [] OTHER -> {}

RECURSIVE IsExpression(_)
\* an IL expression all of whose operands are IL expressions
IsExpression(c) ==
    /\ "sort" \in DOMAIN c
    /\ c.sort = "ail"
    /\ \A i \in 1..Len(c.args) : IsExpression(c.args[i])

\* C2: every condition of the AST a Structurer returns (reaching conditions of
\* Code nodes, conditions of Condition, ConditionalBreak and Loop nodes, the
\* expression of a SwitchCase, at any depth) is an IL expression: no claripy
\* formula is left in the result.
C2_ConditionsAreExpressions ==
    Returned => \A n \in AstNodes(result) :
                    \A c \in Conditions(n) : c = NoneV \/ IsExpression(c)

\* a result that holds a Condition node made from a reaching condition and a
\* condition that is the conversion of a compound formula
C2_Witness ==
    /\ Returned
    /\ \E n \in AstNodes(result) : n.type = "Cond" /\ IsExpression(n.cond)
    /\ \E n \in AstNodes(result) :
          \E c \in Conditions(n) : c # NoneV /\ c.op \in {"LogicalAnd", "LogicalOr", "Not"}

RECURSIVE PathHolds(_, _, _)
\* some path of the region graph from the head to n has all its edge
\* predicates true under the assignment env (the graph is acyclic)
PathHolds(reg, n, env) ==
    \/ n = reg.head
    \/ \E p \in SeqToSet(Predecessors(reg.graph, n)) :
          /\ PathHolds(reg, p, env)
          /\ Eval(extract_predicate(reg.content[p], n), env)

\* _recover_reaching_conditions has run on an acyclic region
Recovered == pc = "make_sequence"

\* a branch of the region leaves it: some edge of graph_with_successors is
\* not an edge of the graph
LeavesRegion(reg) == \E e \in SeqToSet(reg.gws.es) : ~HasEdge(reg.graph, e[1], e[2])

\* C3: in a DAG region the reaching condition _recover_reaching_conditions
\* gives to a node n is equivalent to the disjunction, over the paths from the
\* head to n, of the conjunction of the edge predicates of the path; so it is
\* for the head and for the nodes that post-dominate the head, whose
\* condition is true.
C3_ReachingConditionIsPathDisjunction ==
    Recovered =>
        \A n \in SeqToSet(region.graph.ns) :
            /\ n \in DOMAIN rcs
            /\ \A env \in SUBSET recover_leaves(region.graph, region.content) :
                  Eval(rcs[n], env) = PathHolds(region, n, env)

\* the acyclic pipeline has returned the AST of the region
AcyclicReturned == Returned /\ is_directed_acyclic_graph(region.graph)

\* the region is made of a single block
SingleBlock(reg) == Len(reg.graph.ns) = 1 /\ reg.content[reg.head].type = "Block"

\* a reaching condition that is the constant true, as a formula or as the IL
\* constant the formula is converted to
IsConstantTrue(c) == c = ClTrue \/ c = AilConst(1)

\* no Code node of the AST carries the constant true
NoCodeCarriesTrue(n) == \A c \in AstNodes(n) : c.type = "Code" => ~IsConstantTrue(c.rc)

\* the block of a single-block region as the pipeline leaves it: without its
\* ConditionalJump
StrippedHead(reg) ==
    Block(reg.head, SelectSeq(reg.content[reg.head].statements, LAMBDA st : st.k # "CJ"))

RECURSIVE LastStatements(_)
\* the statement that ends the straight-line code of n, if it has one
LastStatements(n) ==
    CASE n.type = "Seq" -> IF n.nodes = <<>> THEN {} ELSE LastStatements(Last(n.nodes))
      [] n.type = "Code" -> LastStatements(n.node)
      [] n.type = "Loop" -> LastStatements(n.body)
      [] n.type = "Block" -> IF n.statements = <<>> THEN {} ELSE {Last(n.statements)}
      [] OTHER -> {}

Loops(n) == {l \in AstNodes(n) : l.type = "Loop"}

JumpsTo(stmt, addr) == stmt.k = "Jump" /\ stmt.t = addr

\* the address of the head of the loop l of the result: that of the Loop node
\* when it has one (a do-while loop has none), and that of the head of the
\* region, which is the head of the loops made from it
LoopHeads(l) == {l.addr, region.head} \ {0}

\* C5: the last statement of the body of a Loop node produced by the cyclic
\* pipeline is never an unconditional Jump to the address of the loop head.
C5_NoClosingJump ==
    Returned =>
        \A l \in Loops(result) : \A stmt \in LastStatements(l.body) :
            \A head \in LoopHeads(l) : ~JumpsTo(stmt, head)

\* a loop is returned whose body holds a block of the region that ended in a
\* Jump to the loop head, now without it
C5_Witness ==
    /\ Returned
    /\ \E l \in Loops(result) : \E b \in AstNodes(l.body) :
          /\ b.type = "Block"
          /\ b.addr \in DOMAIN region.content
          /\ region.content[b.addr].type = "Block"
          /\ JumpsTo(Last(region.content[b.addr].statements), region.head)
          /\ b.statements = Front(region.content[b.addr].statements)

\* C6: no statement anywhere in the body of a Loop node produced by the cyclic
\* pipeline jumps to the loop head, the statements inside Condition branches
\* included: every such jump has been removed or replaced by a break.
C6_NoJumpToHeadInBody ==
    Returned =>
        \A l \in Loops(result) : \A stmt \in Statements(l.body) :
            LoopHeads(l) \cap SeqToSet(extract_jump_targets(stmt)) = {}

Switches(n) == {sw \in AstNodes(n) : sw.type = "Switch"}

\* the jump that the header of the switch sw ended in: the SwitchCase node has
\* the address of that statement
HeaderJump(reg, sw) ==
    LET h == CHOOSE a \in DOMAIN reg.content :
                 /\ reg.content[a].type = "Block"
                 /\ Last(reg.content[a].statements).ins = sw.addr
    IN  Last(reg.content[h].statements)

\* the keys and the bodies of the cases of sw are those of the jump table:
\* the table is that of the branch of the header that has one, the default
\* address the other branch, the lower bound what the header subtracts
CasesOfTable(reg, sw) ==
    LET jump == HeaderJump(reg, sw)
        target == IF jump.t \in DOMAIN reg.jump_tables THEN jump.t ELSE jump.f
        node_b_addr == IF jump.t \in DOMAIN reg.jump_tables THEN jump.f ELSE jump.t
        entries == reg.jump_tables[target]
        cmp_lb == IF jump.cond.args[1].op = "Sub" THEN jump.cond.args[1].args[2].name ELSE 0
        live == {j \in 0..(Len(entries) - 1) : entries[j + 1] # node_b_addr}
    IN  /\ DOMAIN sw.cases = {cmp_lb + j : j \in live}
        /\ \A j \in live :
              /\ sw.cases[cmp_lb + j].type = "Seq"
              /\ sw.cases[cmp_lb + j].nodes # <<>>
              /\ Addr(sw.cases[cmp_lb + j].nodes[1]) = entries[j + 1]

\* C7: the keys of the cases of every SwitchCase that _switch_build_cases
\* builds from a jump table are exactly the cmp_lb + j of the entries j
\* (counted from 0) that differ from the default address node_b_addr, and the
\* body under the key cmp_lb + j starts with the node at the address entries[j].
C7_CaseKeys ==
    \A sw \in Switches(tree) \cup Switches(result) : CasesOfTable(region, sw)

\* a switch is returned that has a case, a lower bound above 0 and an entry of
\* the table that goes to the default address
C7_Witness ==
    /\ Returned
    /\ \E sw \in Switches(result) :
          /\ DOMAIN sw.cases # {}
          /\ HeaderJump(region, sw).cond.args[1].op = "Sub"
          /\ DefaultAddr \in SeqToSet(region.jump_tables[TableAddr])

\* the AST of the region has been structured once more, as the only node of a
\* region: result is the first AST, inner the second
Restructured == pc = "restructured"

\* C8: structuring is idempotent: structuring the region of one node whose
\* only node is the AST returned by a first structuring returns that same
\* AST: same node kinds, same nesting, same conditions.
C8_Idempotent == Restructured => inner = result

IsPrefix(p, q) == Len(p) < Len(q) /\ SubSeq(q, 1, Len(p)) = p

\* no region is structured twice
StructuredOnce ==
    \A i, j \in 1..Len(driver.structured) :
        i # j => driver.structured[i] # driver.structured[j]

\* the regions nested below a structured region were structured before it
StructuredBottomUp ==
    \A i \in 1..Len(driver.structured) :
        \A q \in RegionPaths(driver.input) :
            IsPrefix(driver.structured[i], q) =>
                \E j \in 1..(i - 1) : driver.structured[j] = q

\* the region a Structurer is made for holds no region: the regions of its
\* graph have been replaced by their AST
NestedReplaced ==
    driver.pc = "structuring" /\ pc = "analyze" /\ stack = <<>> =>
        /\ region = RegionAt(driver.root, driver.current)
        /\ \A a \in SeqToSet(region.graph.ns) :
              /\ region.content[a].type # "Region"
              /\ RegionAt(driver.input, driver.current).content[a].type = "Region"
                    => region.content[a].type = "Seq"

\* the loop has ended: every region of the tree was structured, the root last,
\* and the result is the AST of the root
RootLast ==
    driver.pc = "done" =>
        /\ {driver.structured[i] : i \in 1..Len(driver.structured)}
               = RegionPaths(driver.input)
        /\ Last(driver.structured) = <<>>
        /\ driver.current = <<>>
        /\ driver.stack = <<>>
        /\ driver.result = result
        /\ result # NoneV

\* a Structurer that raises ends the analysis: the driver has no result
FatalError ==
    pc = "failed" => driver.pc = "structuring" /\ driver.result = NoneV

C10_AtMostOneSuccessor ==
    /\ pc = "assert" => Cardinality(loopst.successors) <= 1
    /\ err # "AssertionError"

\* _to_loop_body_sequence is about to visit a node with a successor that is
\* neither a loop node nor a loop successor (the traversal follows every edge
\* of graph_with_successors but those into a loop successor)
MalformedLoop ==
    /\ pc = "make_endless_loop"
    /\ \E n \in ReachFrom(region.gws, {region.head}, loopst.successors) :
          \E dst \in SeqToSet(Successors(region.gws, n)) :
              dst \notin loopst.loop_nodes \cup loopst.successors

\* C11: while the loop body is built, a visited node with a successor that
\* belongs neither to the loop body nor to the loop successors makes the
\* structuring abort with a fatal error: no AST is returned for the region.
C11_MalformedRegionAborts ==
    [][MalformedLoop /\ HeadInCycle(region) => pc' = "failed"]_vars

\* C12: the EmptyBlockNotice that _get_last_statement raises for a block
\* with no statements is always caught inside the Structurer: it never ends
\* the analysis of a region that holds an empty IL block.
C12_EmptyBlockNoticeCaught == err # "EmptyBlockNotice"

\* C13: two runs of the Structurer on the same region return the same AST,
\* whatever order each run walks its sets in: when the second run has
\* returned, its result is the result of the first
C13_Deterministic == pc = "compared" => inner = result

\* the nodes of a sequence but those at i and j
Others(nodes, i, j) ==
    LET idx == SelectSeq([k \in 1..Len(nodes) |-> k], LAMBDA k : k \notin {i, j})
    IN  [k \in 1..Len(idx) |-> nodes[idx[k]]]

\* after holds nodes with the nodes at i and j replaced by one
\* Condition{cond = condition of the node at i, true = the node at i, false =
\* the node at j} where the later of the two was, and every other node in place
PairedAt(nodes, i, j, after) ==
    LET at == (IF i > j THEN i ELSE j) - 1
    IN  /\ Len(after) = Len(nodes) - 1
        /\ after[at].type = "Cond"
        /\ after[at].cond = nodes[i].rc
        /\ after[at].true.type = "Code"
        /\ after[at].true.node.nodes = <<CodeNode(nodes[i].node, ClTrue)>>
        /\ after[at].false.type = "Code"
        /\ after[at].false.node.nodes = <<CodeNode(nodes[j].node, ClTrue)>>
        /\ SubSeq(after, 1, at - 1) \o SubSeq(after, at + 1, Len(after)) = Others(nodes, i, j)

\* the sequence of a diamond: the head, the two branches guarded by p and by
\* not p in either order, the merge block
Diamond(nodes) ==
    /\ Len(nodes) = 4
    /\ nodes[1].rc = ClTrue
    /\ nodes[4].rc = ClTrue
    /\ {nodes[2].rc, nodes[3].rc} = {CondP, ClNot(CondP)}

Refined(l, r) ==
    LET nodes == l.body.nodes
    IN  IF nodes # <<>> /\ Unwrap(nodes[1]).type = "CBreak"
        THEN /\ r.sort = "while"
             /\ r.cond = negate_cond(Unwrap(nodes[1]).cond)
             /\ r.body.nodes = Tail(nodes)
        ELSE IF nodes # <<>> /\ Unwrap(Last(nodes)).type = "CBreak"
        THEN /\ r.sort = "do-while"
             /\ r.cond = negate_cond(Unwrap(Last(nodes)).cond)
             /\ r.body.nodes = Front(nodes)
        ELSE r = l

\* C15: _refine_loop returns, for an endless loop, the while loop, the do-while
\* loop or the loop itself, as the first and the last node of the body say,
\* the other nodes of the body kept in their order
C15_LoopRefinement ==
    [][pc = "refine_loop" =>
           /\ pc' = "finish_cyclic"
           /\ Refined(loopst.loop_node, loopst'.loop_node)]_vars

\* node B of the switch sw: the branch of its header that has no jump table
NodeB(reg, sw) ==
    IF HeaderJump(reg, sw).t \in DOMAIN reg.jump_tables
    THEN HeaderJump(reg, sw).f ELSE HeaderJump(reg, sw).t

\* the addresses of the blocks the cases of sw start with
CaseEntries(reg, sw) ==
    SeqToSet(reg.jump_tables[IF HeaderJump(reg, sw).t \in DOMAIN reg.jump_tables
                             THEN HeaderJump(reg, sw).t ELSE HeaderJump(reg, sw).f])
        \ {NodeB(reg, sw)}

EndsInGotoTo(b, a) ==
    /\ b.type = "Block" /\ b.statements # <<>>
    /\ Last(b.statements).k = "Jump" /\ Last(b.statements).t = a

\* C16 (amended): the switch has no default if and only if AT LEAST ONE case
\* body ends in an unconditional Jump to node B; if no case body does, its
\* default is the node at the address of node B
C16_DefaultGoneWithOneGoto ==
    \A sw \in Switches(tree) :
        /\ sw.default = NoneV <=>
               \E a \in CaseEntries(region, sw) :
                   EndsInGotoTo(region.content[a], NodeB(region, sw))
        /\ sw.default # NoneV => Addr(sw.default) = NodeB(region, sw)

\* C16 witness: a switch was returned without default though one of its cases
\* ends in a return and not in a goto to node B
C16_Witness ==
    /\ Returned
    /\ \E sw \in Switches(result) :
          /\ sw.default = NoneV
          /\ \E a \in CaseEntries(region, sw) :
                 ~EndsInGotoTo(region.content[a], NodeB(region, sw))

\* C16 as stated: the switch has no default if and only if EVERY case body
\* ends in an unconditional Jump to node B
C16_DefaultGoneWithEveryGoto ==
    \A sw \in Switches(tree) :
        sw.default = NoneV <=>
            \A a \in CaseEntries(region, sw) :
                EndsInGotoTo(region.content[a], NodeB(region, sw))

\* the IL blocks below n that end in a goto to a
GotosTo(n, a) == {b \in AstNodes(n) : EndsInGotoTo(b, a)}

\* C17: once _switch_handle_gotos has run, no IL block inside a case body or
\* the default of the switch still ends in a Jump to the end E of the switch:
\* E is node B for a switch without default, else the target its gotos go to
C17_NoGotoToSwitchEnd ==
    \A sw \in Switches(tree) :
        \A k \in DOMAIN sw.cases :
            /\ sw.default = NoneV => GotosTo(sw.cases[k], NodeB(region, sw)) = {}
            /\ sw.default # NoneV => GotosTo(sw.cases[k], SwitchEndAddr) = {}

\* whether the jump table of the block at TableAddr names a case that ends in a goto
SomeCaseJumps(reg) ==
    \E a \in SeqToSet(reg.jump_tables[TableAddr]) \ {DefaultAddr} :
        Last(reg.content[a].statements).k = "Jump"

\* C18: structuring the sequence of a switch none of whose cases holds a Jump
\* (so that node B stays its default and its end is not known) does not raise
C18_NoGotoReturnsNormally ==
    [][pc = "worklist" /\ ~SomeCaseJumps(region) => pc' # "failed"]_vars

\* s is a successor of a node of S all of whose predecessors are in S
Absorbable(g, S, s) ==
    /\ \E n \in S : HasEdge(g, n, s)
    /\ \A n \in SeqToSet(g.ns) : HasEdge(g, n, s) => n \in S

\* no node outside S can be absorbed
ClosedUnderAbsorption(g, S) == \A s \in SeqToSet(g.ns) \ S : ~Absorbable(g, S, s)

\* _find_loop_nodes_and_successors has returned its loop nodes
LoopNodesFound == pc \in {"refine_successors", "assert"}

\* C19: the loop nodes hold the strongly connected component of the head, no
\* node outside them can be absorbed, and every one of them is in the component
\* or was absorbed: no smaller set that holds the component is closed
C19_LoopBodySet ==
    LoopNodesFound =>
        /\ Component(region.graph, region.head) \subseteq loopst.loop_nodes
        /\ loopst.loop_nodes \subseteq SeqToSet(region.graph.ns)
        /\ ClosedUnderAbsorption(region.graph, loopst.loop_nodes)
        /\ \A S \in SUBSET loopst.loop_nodes :
               /\ Component(region.graph, region.head) \subseteq S
               /\ \A s \in loopst.loop_nodes \ S : ~Absorbable(region.graph, S, s)
               => S = loopst.loop_nodes

\* C19 witness: a node was absorbed and another successor of the loop was not
C19_Witness ==
    /\ LoopNodesFound
    /\ loopst.loop_nodes # Component(region.graph, region.head)
    /\ \E n \in loopst.loop_nodes :
           \E s \in SeqToSet(region.graph.ns) \ loopst.loop_nodes :
               HasEdge(region.graph, n, s)

\* the terminator of the loop node n leaves the loop: a Jump to a loop
\* successor, or a ConditionalJump with one target a loop successor and the
\* other a loop node
LeavesLoop(reg, n, loop_nodes, successors) ==
    /\ reg.content[n].type = "Block" /\ reg.content[n].statements # <<>>
    /\ LET stmt == Last(reg.content[n].statements)
       IN  \/ stmt.k = "Jump" /\ stmt.t \in successors
           \/ /\ stmt.k = "CJ"
              /\ \/ stmt.t \in successors /\ stmt.f \in loop_nodes
                 \/ stmt.f \in successors /\ stmt.t \in loop_nodes

\* the node the claim has the terminator stmt become
BreakFor(stmt, successors) ==
    IF stmt.k = "Jump" THEN BreakNode(stmt.ins, stmt.t)
    ELSE IF stmt.t \in successors
    THEN ConditionalBreakNode(stmt.ins, claripy_ast_from_ail_condition(stmt.cond), stmt.t)
    ELSE ConditionalBreakNode(stmt.ins, ClNot(claripy_ast_from_ail_condition(stmt.cond)),
                              stmt.f)

\* the address of what the loop node p is in the graph of the loop body when
\* edges leave it: the break node that was added after it, if one was
LeftFrom(reg, p, loop_nodes, successors) ==
    IF LeavesLoop(reg, p, loop_nodes, successors) /\ Len(reg.content[p].statements) > 1
    THEN Last(reg.content[p].statements).ins ELSE p

\* the loop node n of reg in the region body of the loop body
ExitConverted(reg, n, loop_nodes, successors, body) ==
    LET stmt == Last(reg.content[n].statements)
        rest == Front(reg.content[n].statements)
        new_node == BreakFor(stmt, successors)
    IN  IF rest = <<>>
        THEN /\ body.content[n] = [new_node EXCEPT !.addr = n]
             /\ \A p \in loop_nodes :
                    HasEdge(reg.gws, p, n) /\ n # reg.head =>
                        HasEdge(body.graph, LeftFrom(reg, p, loop_nodes, successors), n)
        ELSE /\ body.content[n] = [reg.content[n] EXCEPT !.statements = rest]
             /\ body.content[stmt.ins] = new_node
             /\ HasEdge(body.graph, n, stmt.ins)

\* C20: when the region of the loop body has been built, every loop node whose
\* terminator leaves the loop has lost it, and a Break{target}, or a
\* ConditionalBreak{c, exit} (the true edge leaves) or {not c, exit} (the
\* false edge leaves), stands in its place with its address and incoming
\* edges if the block held nothing else, and after it as its successor if not
C20_LoopExitConversion ==
    [][pc = "make_endless_loop" /\ pc' # "failed" =>
           \A n \in loopst.loop_nodes :
               LeavesLoop(region, n, loopst.loop_nodes, loopst.successors) =>
                   ExitConverted(region, n, loopst.loop_nodes, loopst.successors,
                                 region')]_vars

\* the Structurer of a loop body has been made from a region where a block
\* that is not the loop head held only a ConditionalJump whose false edge
\* leaves the loop: a ConditionalBreak stands at its address and an edge of
\* the loop body enters it
C20_Witness ==
    /\ pc = "analyze" /\ stack # <<>> /\ Last(stack).pc = "loop_body"
    /\ LET outer == Last(stack).region
           loop_nodes == Last(stack).loopst.loop_nodes
           successors == Last(stack).loopst.successors
       IN  \E n \in loop_nodes :
               /\ LeavesLoop(outer, n, loop_nodes, successors)
               /\ n # outer.head
               /\ Len(outer.content[n].statements) = 1
               /\ Last(outer.content[n].statements).k = "CJ"
               /\ Last(outer.content[n].statements).f \in successors
               /\ region.content[n].type = "CBreak"
               /\ \E p \in DOMAIN region.content : HasEdge(region.graph, p, n)

\* a reaching condition that is there and is not equivalent to true
Guarded(rc) == rc # NoneV /\ (IsClaripy(rc) => ~Valid(rc))

RECURSIVE Unpromoted(_, _)
\* the Code nodes below n, a child of parent, that carry a guarded reaching
\* condition rc and are not the true child of a Condition{cond = rc} without a
\* false branch
Unpromoted(n, parent) ==
    CASE n.type = "Seq" -> UNION {Unpromoted(n.nodes[i], n) : i \in 1..Len(n.nodes)}
      [] n.type = "Code" ->
            (IF /\ Guarded(n.rc)
                /\ ~(/\ parent.type = "Cond" /\ parent.true = n
                     /\ parent.cond = n.rc /\ parent.false = NoneV)
             THEN {n} ELSE {}) \cup Unpromoted(n.node, n)
      [] n.type = "Cond" -> Unpromoted(n.true, n) \cup Unpromoted(n.false, n)
      [] n.type = "Loop" -> Unpromoted(n.body, n)
      [] n.type = "Switch" ->
            UNION {Unpromoted(n.cases[k], n) : k \in DOMAIN n.cases}
                \cup Unpromoted(n.default, n)
      [] OTHER -> {}

\* the ConditionalBreak nodes that stood in a Code node with a guarded
\* reaching condition carry the conjunction in the sequence after
BreaksConjoined(before, after) ==
    \A i \in 1..Len(before) :
        before[i].type = "Code" /\ before[i].node.type = "CBreak" /\ Guarded(before[i].rc) =>
            /\ Unwrap(after[i]).type = "CBreak"
            /\ Unwrap(after[i]).addr = before[i].node.addr
            /\ Unwrap(after[i]).target = before[i].node.target
            /\ Equiv(Unwrap(after[i]).cond, ClAnd(<<before[i].rc, before[i].node.cond>>))
            /\ ReachingCondition(after[i]) = NoneV

\* C21: when _make_condition_nodes has run, every Code node of the tree with a
\* reaching condition rc that is not equivalent to true is the true child of
\* a Condition{cond = rc} without a false branch, at the top level, in nested
\* sequences and in the branches of the Conditions of if/else pairing; a
\* Code(ConditionalBreak{c}, rc) has become ConditionalBreak{rc and c} with
\* the same address and target
C21_ConditionPromotion ==
    [][pc = "make_condition_nodes" /\ pc' = "merge_conditional_breaks" =>
           /\ Unpromoted(tree', NoneV) = {}
           /\ BreaksConjoined(tree.nodes, tree'.nodes)]_vars

\* the node of a sequence is a ConditionalBreak, bare or in a Code node
IsBreak(n) == Unwrap(n).type = "CBreak"

\* the sequence holds two ConditionalBreaks side by side
AdjacentBreaks(nodes) == \E i \in 2..Len(nodes) : IsBreak(nodes[i - 1]) /\ IsBreak(nodes[i])

\* the place in the sequence after merging of the i-th node of the sequence
\* before: a ConditionalBreak that follows one shares its place
PlaceAfter(nodes, i) ==
    Cardinality({j \in 1..i : j = 1 \/ ~(IsBreak(nodes[j - 1]) /\ IsBreak(nodes[j]))})

\* two conditions are the same condition
SameCondition(x, y) == x = y \/ (IsClaripy(x) /\ IsClaripy(y) /\ Equiv(x, y))

RECURSIVE BreaksMerged(_, _)
\* the tree after is the tree before with every run of ConditionalBreaks of
\* a sequence replaced by one ConditionalBreak on the disjunction of their
\* conditions, and nothing else changed but for a node of a sequence that was
\* taken out of a Code node whose reaching condition does not guard it
BreaksMerged(before, after) ==
    CASE before.type = "Seq" ->
            /\ after.type = "Seq"
            /\ Len(after.nodes) = PlaceAfter(before.nodes, Len(before.nodes))
            /\ \A i \in 1..Len(before.nodes) :
                  LET b == before.nodes[i]
                      a == after.nodes[PlaceAfter(before.nodes, i)]
                      run == {j \in 1..Len(before.nodes) :
                                 PlaceAfter(before.nodes, j) = PlaceAfter(before.nodes, i)}
                  IN  IF IsBreak(b)
                      THEN /\ IsBreak(a)
                           /\ IF Cardinality(run) = 1
                              THEN SameCondition(Unwrap(a).cond, Unwrap(b).cond)
                              ELSE Equiv(Unwrap(a).cond,
                                         ClOr([k \in 1..Cardinality(run) |->
                                                  Unwrap(before.nodes[i - 1 + k
                                                      - Cardinality({j \in run : j < i})]).cond]))
                      ELSE IF b.type = "Code" /\ a.type # "Code"
                      THEN ~Guarded(b.rc) /\ BreaksMerged(b.node, a)
                      ELSE BreaksMerged(b, a)
      [] before.type = "Code" ->
            after.type = "Code" /\ after.rc = before.rc /\ BreaksMerged(before.node, after.node)
      [] before.type = "Cond" ->
            /\ after.type = "Cond" /\ after.cond = before.cond
            /\ BreaksMerged(before.true, after.true)
            /\ BreaksMerged(before.false, after.false)
      [] before.type = "Loop" ->
            /\ after.type = "Loop" /\ after.sort = before.sort /\ after.cond = before.cond
            /\ BreaksMerged(before.body, after.body)
      [] before.type = "Switch" ->
            /\ after.type = "Switch" /\ DOMAIN after.cases = DOMAIN before.cases
            /\ \A k \in DOMAIN before.cases : BreaksMerged(before.cases[k], after.cases[k])
            /\ BreaksMerged(before.default, after.default)
      [] OTHER -> after = before

\* C22: when _merge_conditional_breaks has run, no sequence of the tree holds
\* two ConditionalBreaks side by side, bare or in Code nodes; every run of them
\* has become one ConditionalBreak on the disjunction of their conditions, and
\* every other node is as it was, at its place in the order
C22_BreaksMerged ==
    [][pc = "merge_conditional_breaks" /\ pc' = "merge_nesting_conditionals" =>
           /\ \A s \in AstNodes(tree') : s.type = "Seq" => ~AdjacentBreaks(s.nodes)
           /\ BreaksMerged(tree, tree')]_vars

\* a Condition with a true branch and no false branch
OnlyTrue(n) == n.type = "Cond" /\ n.true # NoneV /\ n.false = NoneV

RECURSIVE LoneBreak(_)
\* the ConditionalBreak that n is, or is the only node of, else NoneV
LoneBreak(n) ==
    IF Unwrap(n).type = "CBreak" THEN Unwrap(n)
    ELSE IF Unwrap(n).type = "Seq" /\ Len(Unwrap(n).nodes) = 1
    THEN LoneBreak(Unwrap(n).nodes[1])
    ELSE NoneV

\* if (A) { if (B) { X } } or if (A) { ConditionalBreak{B} }
NestedConditional(n) ==
    OnlyTrue(n) /\ (OnlyTrue(Unwrap(n.true)) \/ LoneBreak(n.true) # NoneV)

\* a is what the claim has the nested conditional n become
Flattened(n, a) ==
    IF OnlyTrue(Unwrap(n.true))
    THEN /\ OnlyTrue(a) /\ a.true = Unwrap(n.true).true
         /\ Equiv(a.cond, ClAnd(<<n.cond, Unwrap(n.true).cond>>))
    ELSE /\ a.type = "CBreak" /\ a.target = LoneBreak(n.true).target
         /\ Equiv(a.cond, ClAnd(<<n.cond, LoneBreak(n.true).cond>>))

\* C23: when _merge_nesting_conditionals has run, no Condition with only a
\* true branch, at any depth of the tree, has as its true branch another such
\* Condition or a lone ConditionalBreak; each one met has become if (A and B)
\* { X } or ConditionalBreak{A and B}
C23_NestingFlattened ==
    [][pc = "merge_nesting_conditionals" /\ pc' = "remove_claripy_bool_asts" =>
           /\ \A n \in AstNodes(tree') : ~NestedConditional(n)
           /\ \A i \in 1..Len(tree.nodes) :
                  NestedConditional(Unwrap(tree.nodes[i])) =>
                      \E k \in 1..Len(tree'.nodes) :
                          Flattened(Unwrap(tree.nodes[i]), tree'.nodes[k])]_vars

\* node A was unpacked on this step
Unpacked ==
    /\ pc = "switch_unpack_sequence_node" /\ pc' = "switch_build_cases"
    /\ ~(SeqToSet(locals.jumptable_entries) \subseteq DOMAIN locals.addr2nodes)

\* rc says when the false branch of a Condition on c runs
IsNegationOf(rc, c) ==
    rc \in {AilNot(c), negate_cond(c), ClNot(claripy_ast_from_ail_condition(c))}

\* the Code node the claim has the child n of node A become
UnpackedAs(n, code) ==
    /\ code.type = "Code"
    /\ IF n.type = "Cond" /\ n.true # NoneV /\ n.false = NoneV
       THEN code.node = n.true /\ code.rc = n.cond
       ELSE IF n.type = "Cond" /\ n.false # NoneV /\ n.true = NoneV
       THEN code.node = n.false /\ IsNegationOf(code.rc, n.cond)
       ELSE code.node = n /\ code.rc = NoneV

\* C24: when node A, a Sequence, is unpacked, a child Condition with only a
\* true branch becomes Code(true branch, cond), a child Condition with only
\* a false branch becomes a Code of the false branch whose reaching condition
\* is the negation of cond, and any other child n becomes Code(n, None)
C24_SwitchUnpacking ==
    [][Unpacked =>
           \A i \in 1..Len(locals.node_a.node.nodes) :
               LET n == locals.node_a.node.nodes[i]
               IN  /\ Addr(n) \in DOMAIN locals'.addr2nodes
                   /\ UnpackedAs(n, locals'.addr2nodes[Addr(n)])
                   /\ InSeq(locals'.addr2nodes[Addr(n)], tree'.nodes)]_vars

\* C30: when _switch_unpack_sequence_node gives up, the sequence and
\* addr2nodes are as they were before the call
C30_GivingUpChangesNothing ==
    [][pc = "switch_unpack_sequence_node" /\ pc' = "continue" =>
           tree' = tree /\ locals'.addr2nodes = locals.addr2nodes]_vars

----------------------------------------------------------------------------
Mergeable(a, b) ==
    /\ a.type = "Code" /\ a.rc # NoneV
    /\ ReachingCondition(b) # NoneV
    /\ Equiv(a.rc, ReachingCondition(b))

RunLength(nodes) ==
    CHOOSE k \in 1..Len(nodes) :
        /\ \A j \in 2..k : Mergeable(nodes[1], nodes[j])
        /\ k = Len(nodes) \/ ~Mergeable(nodes[1], nodes[k + 1])

InnerNodes(n) == IF n.node.type = "Seq" THEN n.node.nodes ELSE <<n.node>>

RECURSIVE Fused(_, _)
Fused(before, after) ==
    IF before = <<>> THEN after = <<>>
    ELSE /\ after # <<>>
         /\ LET k == RunLength(before)
            IN  /\ IF k = 1 THEN after[1] = before[1]
                   ELSE /\ after[1].type = "Code"
                        /\ after[1].rc # NoneV
                        /\ Equiv(after[1].rc, before[1].rc)
                        /\ after[1].node.type = "Seq"
                        /\ after[1].node.nodes =
                               Flatten([j \in 1..k |-> InnerNodes(before[j])])
                /\ Fused(SubSeq(before, k + 1, Len(before)), Tail(after))

----------------------------------------------------------------------------
HasConjunct(n, c) ==
    /\ ReachingCondition(n) # NoneV
    /\ InSeq(c, get_ast_subexprs(ReachingCondition(n)))

LaterWith(nodes, i, c) == {j \in (i + 1)..Len(nodes) : HasConjunct(nodes[j], c)}

SharedConjuncts(nodes, i) ==
    IF ReachingCondition(nodes[i]) = NoneV THEN <<>>
    ELSE SelectSeq(get_ast_subexprs(ReachingCondition(nodes[i])),
                   LAMBDA c : ~ClIsTrue(c) /\ LaterWith(nodes, i, c) # {})

StrippedOf(a, stripped, rc) == Equiv(ClNode("And", <<a, stripped>>), rc)

GroupedAt(before, after, i) ==
    LET a == SharedConjuncts(before, i)[1]
        indices == [j \in 1..Len(before) |-> j]
        group == SelectSeq(indices, LAMBDA j : j = i \/ j \in LaterWith(before, i, a))
        keep == SelectSeq(indices, LAMBDA j : j \notin LaterWith(before, i, a))
    IN  /\ Len(after) = Len(keep)
        /\ after[i].type = "Code" /\ after[i].rc = a
        /\ after[i].node.type = "Seq"
        /\ Len(after[i].node.nodes) = Len(group)
        /\ \A k \in 1..Len(group) :
               LET member == after[i].node.nodes[k]
               IN  /\ member.type = "Code"
                   /\ member.node = before[group[k]].node
                   /\ StrippedOf(a, member.rc, before[group[k]].rc)
        /\ \A k \in 1..Len(keep) : keep[k] # i => after[k] = before[keep[k]]

\* C26: a pass of _structure_common_subexpression_conditions at index i that
\* finds a conjunct of the reaching condition of the node at i among the
\* conjuncts of a later node takes the first such conjunct a that is not true
\* and puts at index i one Code with reaching condition a around the sequence
\* of the node at i and all later nodes with conjunct a, in their order, each
\* with a reaching condition that, conjoined with a, is equivalent to the one
\* it had; the other nodes stay in the outer sequence in their order.
C26_CommonSubexpressionGuarding ==
    [][pc = "structure_common_subexpression_conditions" /\ locals.i < Len(tree.nodes)
       => IF SharedConjuncts(tree.nodes, locals.i) = <<>>
          THEN tree' = tree /\ locals'.i = locals.i + 1
          ELSE locals'.i = locals.i /\ GroupedAt(tree.nodes, tree'.nodes, locals.i)]_vars

----------------------------------------------------------------------------
FreshSequences == [k \in 1..(nextSid' - nextSid) |-> nextSid + k - 1]

----------------------------------------------------------------------------
RECURSIVE LeafBlocks(_)
LeafBlocks(n) ==
    CASE n.type = "Seq" -> Flatten([i \in 1..Len(n.nodes) |-> LeafBlocks(n.nodes[i])])
      [] n.type = "Code" -> LeafBlocks(n.node)
      [] n.type = "Cond" -> LeafBlocks(n.true) \o LeafBlocks(n.false)
      [] n.type = "Loop" -> LeafBlocks(n.body)
      [] n.type = "Switch" ->
            LET keys == SeqOfSet(DOMAIN n.cases)
            IN  Flatten([k \in 1..Len(keys) |-> LeafBlocks(n.cases[keys[k]])])
                    \o LeafBlocks(n.default)
      [] n.type = "Block" -> <<n>>
      [] OTHER -> <<>>

TimesIn(blocks, a) == Cardinality({i \in 1..Len(blocks) : blocks[i].addr = a})

HoldsCode(b) == \E i \in 1..Len(b.statements) : b.statements[i].k = "Assign"

\* C28: a turn of _structure_sequence neither loses nor doubles a node: every
\* block of the tree that holds more than jumps is in the tree afterwards as
\* often as before, and no block is there more often than before (in two
\* groups, two branches or two switch cases).
C28_NodeConservation ==
    [][pc = "worklist" /\ worklist # <<>> /\ pc' = "worklist"
       => LET before == LeafBlocks(tree)
              after == LeafBlocks(tree')
          IN  /\ \A i \in 1..Len(before) :
                     HoldsCode(before[i])
                         => TimesIn(after, before[i].addr) = TimesIn(before, before[i].addr)
              /\ \A i \in 1..Len(after) :
                     TimesIn(after, after[i].addr) <= TimesIn(before, after[i].addr)]_vars

----------------------------------------------------------------------------
LiftedCondition(c) == IF IsClaripy(c) THEN c ELSE claripy_ast_from_ail_condition(c)

RECURSIVE BreaksBelow(_, _)
\* <<target, condition>> of every ConditionalBreak below n, the condition
\* conjoined with the conditions g that guard n
BreaksBelow(n, g) ==
    CASE n.type = "Seq" -> UNION {BreaksBelow(n.nodes[i], g) : i \in 1..Len(n.nodes)}
      [] n.type = "Code" ->
            BreaksBelow(n.node, IF n.rc = NoneV THEN g ELSE Append(g, LiftedCondition(n.rc)))
      [] n.type = "Cond" ->
            LET h == IF n.rc = NoneV THEN g ELSE Append(g, LiftedCondition(n.rc))
            IN  BreaksBelow(n.true, Append(h, LiftedCondition(n.cond)))
                    \cup BreaksBelow(n.false, Append(h, ClNot(LiftedCondition(n.cond))))
      [] n.type = "Loop" -> BreaksBelow(n.body, g)
      [] n.type = "CBreak" -> {<<n.target, ClNode("And", Append(g, LiftedCondition(n.cond)))>>}
      [] OTHER -> {}

BreakTargets(t) == {b[1] : b \in BreaksBelow(t, <<>>)}
BreakVars(t) == UNION {FVars(b[2]) : b \in BreaksBelow(t, <<>>)}
BreaksTo(t, target, env) == \E b \in BreaksBelow(t, <<>>) : b[1] = target /\ Eval(b[2], env)

AdjacentSameTarget(nodes) ==
    \A i \in 1..(Len(nodes) - 1) :
        IsBreak(nodes[i]) /\ IsBreak(nodes[i + 1])
            => Unwrap(nodes[i]).target = Unwrap(nodes[i + 1]).target

\* C29: _merge_conditional_breaks never changes where a break goes: two
\* ConditionalBreaks next to each other in a sequence have the same target,
\* and for every target the tree breaks to it under the same conditions
\* before and after the merge.
C29_BreakTargetsKept ==
    [][pc = "merge_conditional_breaks" /\ pc' = "merge_nesting_conditionals"
       => /\ \A s \in AstNodes(tree) : s.type = "Seq" => AdjacentSameTarget(s.nodes)
          /\ BreakTargets(tree') = BreakTargets(tree)
          /\ \A target \in BreakTargets(tree) :
                 \A env \in SUBSET (BreakVars(tree) \cup BreakVars(tree')) :
                     BreaksTo(tree, target, env) = BreaksTo(tree', target, env)]_vars

\* two ConditionalBreaks have been merged into one
C29_Witness ==
    /\ pc = "merge_nesting_conditionals"
    /\ \E n \in AstNodes(tree) : n.type = "CBreak" /\ IsClaripy(n.cond) /\ n.cond.op = "Or"

====
